---- MODULE Spec2Model ----
(***************************************************************************)
(* CycloneCrypto block ciphers: AES (aes.c) and Camellia (camellia.c).     *)
(* A caller owns one cipher context and a small byte memory holding two    *)
(* 16-byte buffers; it initializes the context with a key and then         *)
(* encrypts or decrypts single blocks between the buffers.                 *)
(*                                                                         *)
(* Bytes are integers 0..255.  A uint32_t is a 4-tuple of bytes, most      *)
(* significant byte first, so that no value exceeds the range of the       *)
(* model checker's integers; all word operators keep the 32-bit width.     *)
(***************************************************************************)
EXTENDS Integers, Sequences, FiniteSets, TLC

\* Substitution table used by encryption algorithm (S-box), indexed from 1
sbox ==
   <<
   \h63, \h7C, \h77, \h7B, \hF2, \h6B, \h6F, \hC5, \h30, \h01, \h67, \h2B, \hFE, \hD7, \hAB, \h76,
   \hCA, \h82, \hC9, \h7D, \hFA, \h59, \h47, \hF0, \hAD, \hD4, \hA2, \hAF, \h9C, \hA4, \h72, \hC0,
   \hB7, \hFD, \h93, \h26, \h36, \h3F, \hF7, \hCC, \h34, \hA5, \hE5, \hF1, \h71, \hD8, \h31, \h15,
   \h04, \hC7, \h23, \hC3, \h18, \h96, \h05, \h9A, \h07, \h12, \h80, \hE2, \hEB, \h27, \hB2, \h75,
   \h09, \h83, \h2C, \h1A, \h1B, \h6E, \h5A, \hA0, \h52, \h3B, \hD6, \hB3, \h29, \hE3, \h2F, \h84,
   \h53, \hD1, \h00, \hED, \h20, \hFC, \hB1, \h5B, \h6A, \hCB, \hBE, \h39, \h4A, \h4C, \h58, \hCF,
   \hD0, \hEF, \hAA, \hFB, \h43, \h4D, \h33, \h85, \h45, \hF9, \h02, \h7F, \h50, \h3C, \h9F, \hA8,
   \h51, \hA3, \h40, \h8F, \h92, \h9D, \h38, \hF5, \hBC, \hB6, \hDA, \h21, \h10, \hFF, \hF3, \hD2,
   \hCD, \h0C, \h13, \hEC, \h5F, \h97, \h44, \h17, \hC4, \hA7, \h7E, \h3D, \h64, \h5D, \h19, \h73,
   \h60, \h81, \h4F, \hDC, \h22, \h2A, \h90, \h88, \h46, \hEE, \hB8, \h14, \hDE, \h5E, \h0B, \hDB,
   \hE0, \h32, \h3A, \h0A, \h49, \h06, \h24, \h5C, \hC2, \hD3, \hAC, \h62, \h91, \h95, \hE4, \h79,
   \hE7, \hC8, \h37, \h6D, \h8D, \hD5, \h4E, \hA9, \h6C, \h56, \hF4, \hEA, \h65, \h7A, \hAE, \h08,
   \hBA, \h78, \h25, \h2E, \h1C, \hA6, \hB4, \hC6, \hE8, \hDD, \h74, \h1F, \h4B, \hBD, \h8B, \h8A,
   \h70, \h3E, \hB5, \h66, \h48, \h03, \hF6, \h0E, \h61, \h35, \h57, \hB9, \h86, \hC1, \h1D, \h9E,
   \hE1, \hF8, \h98, \h11, \h69, \hD9, \h8E, \h94, \h9B, \h1E, \h87, \hE9, \hCE, \h55, \h28, \hDF,
   \h8C, \hA1, \h89, \h0D, \hBF, \hE6, \h42, \h68, \h41, \h99, \h2D, \h0F, \hB0, \h54, \hBB, \h16
   >>

\* Substitution table used by decryption algorithm (inverse S-box)
isbox ==
   <<
   \h52, \h09, \h6A, \hD5, \h30, \h36, \hA5, \h38, \hBF, \h40, \hA3, \h9E, \h81, \hF3, \hD7, \hFB,
   \h7C, \hE3, \h39, \h82, \h9B, \h2F, \hFF, \h87, \h34, \h8E, \h43, \h44, \hC4, \hDE, \hE9, \hCB,
   \h54, \h7B, \h94, \h32, \hA6, \hC2, \h23, \h3D, \hEE, \h4C, \h95, \h0B, \h42, \hFA, \hC3, \h4E,
   \h08, \h2E, \hA1, \h66, \h28, \hD9, \h24, \hB2, \h76, \h5B, \hA2, \h49, \h6D, \h8B, \hD1, \h25,
   \h72, \hF8, \hF6, \h64, \h86, \h68, \h98, \h16, \hD4, \hA4, \h5C, \hCC, \h5D, \h65, \hB6, \h92,
   \h6C, \h70, \h48, \h50, \hFD, \hED, \hB9, \hDA, \h5E, \h15, \h46, \h57, \hA7, \h8D, \h9D, \h84,
   \h90, \hD8, \hAB, \h00, \h8C, \hBC, \hD3, \h0A, \hF7, \hE4, \h58, \h05, \hB8, \hB3, \h45, \h06,
   \hD0, \h2C, \h1E, \h8F, \hCA, \h3F, \h0F, \h02, \hC1, \hAF, \hBD, \h03, \h01, \h13, \h8A, \h6B,
   \h3A, \h91, \h11, \h41, \h4F, \h67, \hDC, \hEA, \h97, \hF2, \hCF, \hCE, \hF0, \hB4, \hE6, \h73,
   \h96, \hAC, \h74, \h22, \hE7, \hAD, \h35, \h85, \hE2, \hF9, \h37, \hE8, \h1C, \h75, \hDF, \h6E,
   \h47, \hF1, \h1A, \h71, \h1D, \h29, \hC5, \h89, \h6F, \hB7, \h62, \h0E, \hAA, \h18, \hBE, \h1B,
   \hFC, \h56, \h3E, \h4B, \hC6, \hD2, \h79, \h20, \h9A, \hDB, \hC0, \hFE, \h78, \hCD, \h5A, \hF4,
   \h1F, \hDD, \hA8, \h33, \h88, \h07, \hC7, \h31, \hB1, \h12, \h10, \h59, \h27, \h80, \hEC, \h5F,
   \h60, \h51, \h7F, \hA9, \h19, \hB5, \h4A, \h0D, \h2D, \hE5, \h7A, \h9F, \h93, \hC9, \h9C, \hEF,
   \hA0, \hE0, \h3B, \h4D, \hAE, \h2A, \hF5, \hB0, \hC8, \hEB, \hBB, \h3C, \h83, \h53, \h99, \h61,
   \h17, \h2B, \h04, \h7E, \hBA, \h77, \hD6, \h26, \hE1, \h69, \h14, \h63, \h55, \h21, \h0C, \h7D
   >>

\* Multiplication by {02} in the finite field GF(256)
mul2 ==
   <<
   \h00, \h02, \h04, \h06, \h08, \h0A, \h0C, \h0E, \h10, \h12, \h14, \h16, \h18, \h1A, \h1C, \h1E,
   \h20, \h22, \h24, \h26, \h28, \h2A, \h2C, \h2E, \h30, \h32, \h34, \h36, \h38, \h3A, \h3C, \h3E,
   \h40, \h42, \h44, \h46, \h48, \h4A, \h4C, \h4E, \h50, \h52, \h54, \h56, \h58, \h5A, \h5C, \h5E,
   \h60, \h62, \h64, \h66, \h68, \h6A, \h6C, \h6E, \h70, \h72, \h74, \h76, \h78, \h7A, \h7C, \h7E,
   \h80, \h82, \h84, \h86, \h88, \h8A, \h8C, \h8E, \h90, \h92, \h94, \h96, \h98, \h9A, \h9C, \h9E,
   \hA0, \hA2, \hA4, \hA6, \hA8, \hAA, \hAC, \hAE, \hB0, \hB2, \hB4, \hB6, \hB8, \hBA, \hBC, \hBE,
   \hC0, \hC2, \hC4, \hC6, \hC8, \hCA, \hCC, \hCE, \hD0, \hD2, \hD4, \hD6, \hD8, \hDA, \hDC, \hDE,
   \hE0, \hE2, \hE4, \hE6, \hE8, \hEA, \hEC, \hEE, \hF0, \hF2, \hF4, \hF6, \hF8, \hFA, \hFC, \hFE,
   \h1B, \h19, \h1F, \h1D, \h13, \h11, \h17, \h15, \h0B, \h09, \h0F, \h0D, \h03, \h01, \h07, \h05,
   \h3B, \h39, \h3F, \h3D, \h33, \h31, \h37, \h35, \h2B, \h29, \h2F, \h2D, \h23, \h21, \h27, \h25,
   \h5B, \h59, \h5F, \h5D, \h53, \h51, \h57, \h55, \h4B, \h49, \h4F, \h4D, \h43, \h41, \h47, \h45,
   \h7B, \h79, \h7F, \h7D, \h73, \h71, \h77, \h75, \h6B, \h69, \h6F, \h6D, \h63, \h61, \h67, \h65,
   \h9B, \h99, \h9F, \h9D, \h93, \h91, \h97, \h95, \h8B, \h89, \h8F, \h8D, \h83, \h81, \h87, \h85,
   \hBB, \hB9, \hBF, \hBD, \hB3, \hB1, \hB7, \hB5, \hAB, \hA9, \hAF, \hAD, \hA3, \hA1, \hA7, \hA5,
   \hDB, \hD9, \hDF, \hDD, \hD3, \hD1, \hD7, \hD5, \hCB, \hC9, \hCF, \hCD, \hC3, \hC1, \hC7, \hC5,
   \hFB, \hF9, \hFF, \hFD, \hF3, \hF1, \hF7, \hF5, \hEB, \hE9, \hEF, \hED, \hE3, \hE1, \hE7, \hE5
   >>

\* Camellia substitution table 1
sbox1 ==
   <<
   \h70, \h82, \h2C, \hEC, \hB3, \h27, \hC0, \hE5, \hE4, \h85, \h57, \h35, \hEA, \h0C, \hAE, \h41,
   \h23, \hEF, \h6B, \h93, \h45, \h19, \hA5, \h21, \hED, \h0E, \h4F, \h4E, \h1D, \h65, \h92, \hBD,
   \h86, \hB8, \hAF, \h8F, \h7C, \hEB, \h1F, \hCE, \h3E, \h30, \hDC, \h5F, \h5E, \hC5, \h0B, \h1A,
   \hA6, \hE1, \h39, \hCA, \hD5, \h47, \h5D, \h3D, \hD9, \h01, \h5A, \hD6, \h51, \h56, \h6C, \h4D,
   \h8B, \h0D, \h9A, \h66, \hFB, \hCC, \hB0, \h2D, \h74, \h12, \h2B, \h20, \hF0, \hB1, \h84, \h99,
   \hDF, \h4C, \hCB, \hC2, \h34, \h7E, \h76, \h05, \h6D, \hB7, \hA9, \h31, \hD1, \h17, \h04, \hD7,
   \h14, \h58, \h3A, \h61, \hDE, \h1B, \h11, \h1C, \h32, \h0F, \h9C, \h16, \h53, \h18, \hF2, \h22,
   \hFE, \h44, \hCF, \hB2, \hC3, \hB5, \h7A, \h91, \h24, \h08, \hE8, \hA8, \h60, \hFC, \h69, \h50,
   \hAA, \hD0, \hA0, \h7D, \hA1, \h89, \h62, \h97, \h54, \h5B, \h1E, \h95, \hE0, \hFF, \h64, \hD2,
   \h10, \hC4, \h00, \h48, \hA3, \hF7, \h75, \hDB, \h8A, \h03, \hE6, \hDA, \h09, \h3F, \hDD, \h94,
   \h87, \h5C, \h83, \h02, \hCD, \h4A, \h90, \h33, \h73, \h67, \hF6, \hF3, \h9D, \h7F, \hBF, \hE2,
   \h52, \h9B, \hD8, \h26, \hC8, \h37, \hC6, \h3B, \h81, \h96, \h6F, \h4B, \h13, \hBE, \h63, \h2E,
   \hE9, \h79, \hA7, \h8C, \h9F, \h6E, \hBC, \h8E, \h29, \hF5, \hF9, \hB6, \h2F, \hFD, \hB4, \h59,
   \h78, \h98, \h06, \h6A, \hE7, \h46, \h71, \hBA, \hD4, \h25, \hAB, \h42, \h88, \hA2, \h8D, \hFA,
   \h72, \h07, \hB9, \h55, \hF8, \hEE, \hAC, \h0A, \h36, \h49, \h2A, \h68, \h3C, \h38, \hF1, \hA4,
   \h40, \h28, \hD3, \h7B, \hBB, \hC9, \h43, \hC1, \h15, \hE3, \hAD, \hF4, \h77, \hC7, \h80, \h9E
   >>

\* Camellia substitution table 2
sbox2 ==
   <<
   \hE0, \h05, \h58, \hD9, \h67, \h4E, \h81, \hCB, \hC9, \h0B, \hAE, \h6A, \hD5, \h18, \h5D, \h82,
   \h46, \hDF, \hD6, \h27, \h8A, \h32, \h4B, \h42, \hDB, \h1C, \h9E, \h9C, \h3A, \hCA, \h25, \h7B,
   \h0D, \h71, \h5F, \h1F, \hF8, \hD7, \h3E, \h9D, \h7C, \h60, \hB9, \hBE, \hBC, \h8B, \h16, \h34,
   \h4D, \hC3, \h72, \h95, \hAB, \h8E, \hBA, \h7A, \hB3, \h02, \hB4, \hAD, \hA2, \hAC, \hD8, \h9A,
   \h17, \h1A, \h35, \hCC, \hF7, \h99, \h61, \h5A, \hE8, \h24, \h56, \h40, \hE1, \h63, \h09, \h33,
   \hBF, \h98, \h97, \h85, \h68, \hFC, \hEC, \h0A, \hDA, \h6F, \h53, \h62, \hA3, \h2E, \h08, \hAF,
   \h28, \hB0, \h74, \hC2, \hBD, \h36, \h22, \h38, \h64, \h1E, \h39, \h2C, \hA6, \h30, \hE5, \h44,
   \hFD, \h88, \h9F, \h65, \h87, \h6B, \hF4, \h23, \h48, \h10, \hD1, \h51, \hC0, \hF9, \hD2, \hA0,
   \h55, \hA1, \h41, \hFA, \h43, \h13, \hC4, \h2F, \hA8, \hB6, \h3C, \h2B, \hC1, \hFF, \hC8, \hA5,
   \h20, \h89, \h00, \h90, \h47, \hEF, \hEA, \hB7, \h15, \h06, \hCD, \hB5, \h12, \h7E, \hBB, \h29,
   \h0F, \hB8, \h07, \h04, \h9B, \h94, \h21, \h66, \hE6, \hCE, \hED, \hE7, \h3B, \hFE, \h7F, \hC5,
   \hA4, \h37, \hB1, \h4C, \h91, \h6E, \h8D, \h76, \h03, \h2D, \hDE, \h96, \h26, \h7D, \hC6, \h5C,
   \hD3, \hF2, \h4F, \h19, \h3F, \hDC, \h79, \h1D, \h52, \hEB, \hF3, \h6D, \h5E, \hFB, \h69, \hB2,
   \hF0, \h31, \h0C, \hD4, \hCF, \h8C, \hE2, \h75, \hA9, \h4A, \h57, \h84, \h11, \h45, \h1B, \hF5,
   \hE4, \h0E, \h73, \hAA, \hF1, \hDD, \h59, \h14, \h6C, \h92, \h54, \hD0, \h78, \h70, \hE3, \h49,
   \h80, \h50, \hA7, \hF6, \h77, \h93, \h86, \h83, \h2A, \hC7, \h5B, \hE9, \hEE, \h8F, \h01, \h3D
   >>

\* Camellia substitution table 3
sbox3 ==
   <<
   \h38, \h41, \h16, \h76, \hD9, \h93, \h60, \hF2, \h72, \hC2, \hAB, \h9A, \h75, \h06, \h57, \hA0,
   \h91, \hF7, \hB5, \hC9, \hA2, \h8C, \hD2, \h90, \hF6, \h07, \hA7, \h27, \h8E, \hB2, \h49, \hDE,
   \h43, \h5C, \hD7, \hC7, \h3E, \hF5, \h8F, \h67, \h1F, \h18, \h6E, \hAF, \h2F, \hE2, \h85, \h0D,
   \h53, \hF0, \h9C, \h65, \hEA, \hA3, \hAE, \h9E, \hEC, \h80, \h2D, \h6B, \hA8, \h2B, \h36, \hA6,
   \hC5, \h86, \h4D, \h33, \hFD, \h66, \h58, \h96, \h3A, \h09, \h95, \h10, \h78, \hD8, \h42, \hCC,
   \hEF, \h26, \hE5, \h61, \h1A, \h3F, \h3B, \h82, \hB6, \hDB, \hD4, \h98, \hE8, \h8B, \h02, \hEB,
   \h0A, \h2C, \h1D, \hB0, \h6F, \h8D, \h88, \h0E, \h19, \h87, \h4E, \h0B, \hA9, \h0C, \h79, \h11,
   \h7F, \h22, \hE7, \h59, \hE1, \hDA, \h3D, \hC8, \h12, \h04, \h74, \h54, \h30, \h7E, \hB4, \h28,
   \h55, \h68, \h50, \hBE, \hD0, \hC4, \h31, \hCB, \h2A, \hAD, \h0F, \hCA, \h70, \hFF, \h32, \h69,
   \h08, \h62, \h00, \h24, \hD1, \hFB, \hBA, \hED, \h45, \h81, \h73, \h6D, \h84, \h9F, \hEE, \h4A,
   \hC3, \h2E, \hC1, \h01, \hE6, \h25, \h48, \h99, \hB9, \hB3, \h7B, \hF9, \hCE, \hBF, \hDF, \h71,
   \h29, \hCD, \h6C, \h13, \h64, \h9B, \h63, \h9D, \hC0, \h4B, \hB7, \hA5, \h89, \h5F, \hB1, \h17,
   \hF4, \hBC, \hD3, \h46, \hCF, \h37, \h5E, \h47, \h94, \hFA, \hFC, \h5B, \h97, \hFE, \h5A, \hAC,
   \h3C, \h4C, \h03, \h35, \hF3, \h23, \hB8, \h5D, \h6A, \h92, \hD5, \h21, \h44, \h51, \hC6, \h7D,
   \h39, \h83, \hDC, \hAA, \h7C, \h77, \h56, \h05, \h1B, \hA4, \h15, \h34, \h1E, \h1C, \hF8, \h52,
   \h20, \h14, \hE9, \hBD, \hDD, \hE4, \hA1, \hE0, \h8A, \hF1, \hD6, \h7A, \hBB, \hE3, \h40, \h4F
   >>

\* Camellia substitution table 4
sbox4 ==
   <<
   \h70, \h2C, \hB3, \hC0, \hE4, \h57, \hEA, \hAE, \h23, \h6B, \h45, \hA5, \hED, \h4F, \h1D, \h92,
   \h86, \hAF, \h7C, \h1F, \h3E, \hDC, \h5E, \h0B, \hA6, \h39, \hD5, \h5D, \hD9, \h5A, \h51, \h6C,
   \h8B, \h9A, \hFB, \hB0, \h74, \h2B, \hF0, \h84, \hDF, \hCB, \h34, \h76, \h6D, \hA9, \hD1, \h04,
   \h14, \h3A, \hDE, \h11, \h32, \h9C, \h53, \hF2, \hFE, \hCF, \hC3, \h7A, \h24, \hE8, \h60, \h69,
   \hAA, \hA0, \hA1, \h62, \h54, \h1E, \hE0, \h64, \h10, \h00, \hA3, \h75, \h8A, \hE6, \h09, \hDD,
   \h87, \h83, \hCD, \h90, \h73, \hF6, \h9D, \hBF, \h52, \hD8, \hC8, \hC6, \h81, \h6F, \h13, \h63,
   \hE9, \hA7, \h9F, \hBC, \h29, \hF9, \h2F, \hB4, \h78, \h06, \hE7, \h71, \hD4, \hAB, \h88, \h8D,
   \h72, \hB9, \hF8, \hAC, \h36, \h2A, \h3C, \hF1, \h40, \hD3, \hBB, \h43, \h15, \hAD, \h77, \h80,
   \h82, \hEC, \h27, \hE5, \h85, \h35, \h0C, \h41, \hEF, \h93, \h19, \h21, \h0E, \h4E, \h65, \hBD,
   \hB8, \h8F, \hEB, \hCE, \h30, \h5F, \hC5, \h1A, \hE1, \hCA, \h47, \h3D, \h01, \hD6, \h56, \h4D,
   \h0D, \h66, \hCC, \h2D, \h12, \h20, \hB1, \h99, \h4C, \hC2, \h7E, \h05, \hB7, \h31, \h17, \hD7,
   \h58, \h61, \h1B, \h1C, \h0F, \h16, \h18, \h22, \h44, \hB2, \hB5, \h91, \h08, \hA8, \hFC, \h50,
   \hD0, \h7D, \h89, \h97, \h5B, \h95, \hFF, \hD2, \hC4, \h48, \hF7, \hDB, \h03, \hDA, \h3F, \h94,
   \h5C, \h02, \h4A, \h33, \h67, \hF3, \h7F, \hE2, \h9B, \h26, \h37, \h3B, \h96, \h4B, \hBE, \h2E,
   \h79, \h8C, \h6E, \h8E, \hF5, \hB6, \hFD, \h59, \h98, \h6A, \h46, \hBA, \h25, \h42, \hA2, \hFA,
   \h07, \h55, \hEE, \h0A, \h49, \h68, \h38, \hA4, \h28, \h7B, \hC9, \hC1, \hE3, \hF4, \hC7, \h9E
   >>

(***************************************************************************)
(* Fixed-width integer arithmetic of the C code                            *)
(***************************************************************************)

Byte == 0..255

\* Pow2[n + 1] = 2^n for the shift amounts within one byte
Pow2 == <<1, 2, 4, 8, 16, 32, 64, 128, 256>>

RECURSIVE BitOp(_, _, _, _)
\* Bitwise operator on n-bit operands; tt is the truth table of one bit,
\* indexed by 2 * (bit of a) + (bit of b) + 1
BitOp(tt, a, b, n) ==
   IF n = 0 THEN 0
   ELSE tt[2 * (a % 2) + (b % 2) + 1] + 2 * BitOp(tt, a \div 2, b \div 2, n - 1)

\* C operators ^, & and | on 4-bit operands, tabulated
XorNib == [a \in 0..15 |-> [b \in 0..15 |-> BitOp(<<0, 1, 1, 0>>, a, b, 4)]]
AndNib == [a \in 0..15 |-> [b \in 0..15 |-> BitOp(<<0, 0, 0, 1>>, a, b, 4)]]
OrNib == [a \in 0..15 |-> [b \in 0..15 |-> BitOp(<<0, 1, 1, 1>>, a, b, 4)]]

\* C operators ^, & and | on uint8_t operands, tabulated
XorTab ==
   [a \in Byte |-> [b \in Byte |->
      16 * XorNib[a \div 16][b \div 16] + XorNib[a % 16][b % 16]]]
AndTab ==
   [a \in Byte |-> [b \in Byte |->
      16 * AndNib[a \div 16][b \div 16] + AndNib[a % 16][b % 16]]]
OrTab ==
   [a \in Byte |-> [b \in Byte |->
      16 * OrNib[a \div 16][b \div 16] + OrNib[a % 16][b % 16]]]

XOR8(a, b) == XorTab[a][b]

\* C operators on uint32_t operands
XOR32(x, y) == <<XorTab[x[1]][y[1]], XorTab[x[2]][y[2]], XorTab[x[3]][y[3]], XorTab[x[4]][y[4]]>>
AND32(x, y) == <<AndTab[x[1]][y[1]], AndTab[x[2]][y[2]], AndTab[x[3]][y[3]], AndTab[x[4]][y[4]]>>
OR32(x, y) == <<OrTab[x[1]][y[1]], OrTab[x[2]][y[2]], OrTab[x[3]][y[3]], OrTab[x[4]][y[4]]>>
NOT32(x) == <<255 - x[1], 255 - x[2], 255 - x[3], 255 - x[4]>>

\* Byte j of the word x, most significant first; 0 outside the word
ByteAt(x, j) == IF j >= 1 /\ j <= 4 THEN x[j] ELSE 0

\* x << (8 * q + s) on a uint32_t, 0 <= s <= 7
ShlBytes(x, q, s) ==
   <<((ByteAt(x, 1 + q) * Pow2[s + 1]) % 256) + (ByteAt(x, 2 + q) \div Pow2[8 - s + 1]),
     ((ByteAt(x, 2 + q) * Pow2[s + 1]) % 256) + (ByteAt(x, 3 + q) \div Pow2[8 - s + 1]),
     ((ByteAt(x, 3 + q) * Pow2[s + 1]) % 256) + (ByteAt(x, 4 + q) \div Pow2[8 - s + 1]),
     ((ByteAt(x, 4 + q) * Pow2[s + 1]) % 256) + (ByteAt(x, 5 + q) \div Pow2[8 - s + 1])>>

\* x >> (8 * q + s) on a uint32_t, 0 <= s <= 7
ShrBytes(x, q, s) ==
   <<(ByteAt(x, 1 - q) \div Pow2[s + 1]) + ((ByteAt(x, 0 - q) * Pow2[8 - s + 1]) % 256),
     (ByteAt(x, 2 - q) \div Pow2[s + 1]) + ((ByteAt(x, 1 - q) * Pow2[8 - s + 1]) % 256),
     (ByteAt(x, 3 - q) \div Pow2[s + 1]) + ((ByteAt(x, 2 - q) * Pow2[8 - s + 1]) % 256),
     (ByteAt(x, 4 - q) \div Pow2[s + 1]) + ((ByteAt(x, 3 - q) * Pow2[8 - s + 1]) % 256)>>

\* x << n and x >> n on a uint32_t, 0 <= n <= 32: bits shifted out are lost
SHL32(x, n) == ShlBytes(x, n \div 8, n % 8)
SHR32(x, n) == ShrBytes(x, n \div 8, n % 8)

\* Rotate left / right of a 32-bit value by n bits, 1 <= n <= 31
ROL32(a, n) == OR32(SHL32(a, n), SHR32(a, 32 - n))
ROR32(a, n) == OR32(SHR32(a, n), SHL32(a, 32 - n))

\* The uint32_t stored at byte offset off of the byte array b (0-based
\* offsets, b indexed from 1), little-endian host
LOAD32H(b, off) == <<b[off + 4], b[off + 3], b[off + 2], b[off + 1]>>

\* The four bytes a little-endian host stores for the word x, in address order
BYTES32H(x) == <<x[4], x[3], x[2], x[1]>>

\* Big-endian load of a 32-bit word from byte offset off
LOAD32BE(b, off) == <<b[off + 1], b[off + 2], b[off + 3], b[off + 4]>>

\* The four bytes STORE32BE writes, in address order
BYTES32BE(x) == <<x[1], x[2], x[3], x[4]>>

\* Big-endian to host conversion of a word: a byte swap on this host
betoh32(x) == LOAD32BE(BYTES32H(x), 0)

(***************************************************************************)
(* AES                                                                     *)
(***************************************************************************)

\* AES block size
AES_BLOCK_SIZE == 16

\* Number of 32-bit words of the key schedule array of an AesContext
AES_W_SIZE == 60

\* Round constants doubled without the reduction by 0x11B
rcon_unreduced ==
   <<
   <<\h00, \h00, \h00, \h00>>,
   <<\h00, \h00, \h00, \h01>>,
   <<\h00, \h00, \h00, \h02>>,
   <<\h00, \h00, \h00, \h04>>,
   <<\h00, \h00, \h00, \h08>>,
   <<\h00, \h00, \h00, \h10>>,
   <<\h00, \h00, \h00, \h20>>,
   <<\h00, \h00, \h00, \h40>>,
   <<\h00, \h00, \h00, \h80>>,
   <<\h00, \h00, \h00, \h00>>,
   <<\h00, \h00, \h00, \h00>>
   >>

\* Round constant word array
rcon ==
   <<
   <<\h00, \h00, \h00, \h00>>,
   <<\h00, \h00, \h00, \h01>>,
   <<\h00, \h00, \h00, \h02>>,
   <<\h00, \h00, \h00, \h04>>,
   <<\h00, \h00, \h00, \h08>>,
   <<\h00, \h00, \h00, \h10>>,
   <<\h00, \h00, \h00, \h20>>,
   <<\h00, \h00, \h00, \h40>>,
   <<\h00, \h00, \h00, \h80>>,
   <<\h00, \h00, \h00, \h1B>>,
   <<\h00, \h00, \h00, \h36>>
   >>

\* Rotate macro used by key expansion
rotWord(w) == ROR32(w, 8)

\* SubWord transformation: each byte of the word goes through the S-box
subWord(w) == <<sbox[w[1] + 1], sbox[w[2] + 1], sbox[w[3] + 1], sbox[w[4] + 1]>>

\* AesState is a union of b[16] and w[4]; the model keeps the 16 bytes
\* (indexed from 1) and StateW reads word i of the same storage
StateW(state, i) == LOAD32H(state, 4 * i)

\* AddRoundKey transformation: state->w[i] ^= k[i] for i = 0..3, where k
\* is the schedule (indexed from 1) and ko the offset of the round key
addRoundKey(state, k, ko) ==
   BYTES32H(XOR32(StateW(state, 0), k[ko + 1])) \o
   BYTES32H(XOR32(StateW(state, 1), k[ko + 2])) \o
   BYTES32H(XOR32(StateW(state, 2), k[ko + 3])) \o
   BYTES32H(XOR32(StateW(state, 3), k[ko + 4]))

\* SubBytes transformation
subBytes(state) == [i \in 1..16 |-> sbox[state[i] + 1]]

\* InvSubBytes looking the bytes up in sbox
invSubBytes_sbox(state) == [i \in 1..16 |-> sbox[state[i] + 1]]

\* InvSubBytes transformation
invSubBytes(state) == [i \in 1..16 |-> isbox[state[i] + 1]]

\* ShiftRows transformation; b[j] of the code is state[j + 1]
shiftRows(state) ==
   <<state[1], state[6], state[11], state[16],
     state[5], state[10], state[15], state[4],
     state[9], state[14], state[3], state[8],
     state[13], state[2], state[7], state[12]>>

\* InvShiftRows with the last row shifted right by 1 byte instead of 3
invShiftRows_lastRow(state) ==
   <<state[1], state[14], state[11], state[16],
     state[5], state[2], state[15], state[4],
     state[9], state[6], state[3], state[8],
     state[13], state[10], state[7], state[12]>>

\* InvShiftRows transformation
invShiftRows(state) ==
   <<state[1], state[14], state[11], state[8],
     state[5], state[2], state[15], state[12],
     state[9], state[6], state[3], state[16],
     state[13], state[10], state[7], state[4]>>

\* One column of MixColumns whose last byte uses mul2[b3 ^ b2]
mixColumnOut_lastByte(p, b0, b1, b2, b3) ==
   <<XOR8(XOR8(p, b0), mul2[XOR8(b0, b1) + 1]),
     XOR8(XOR8(p, b1), mul2[XOR8(b1, b2) + 1]),
     XOR8(XOR8(p, b2), mul2[XOR8(b2, b3) + 1]),
     XOR8(XOR8(p, b3), mul2[XOR8(b3, b2) + 1])>>

\* One column of MixColumns, p being b0 ^ b1 ^ b2 ^ b3
mixColumnOut(p, b0, b1, b2, b3) ==
   <<XOR8(XOR8(p, b0), mul2[XOR8(b0, b1) + 1]),
     XOR8(XOR8(p, b1), mul2[XOR8(b1, b2) + 1]),
     XOR8(XOR8(p, b2), mul2[XOR8(b2, b3) + 1]),
     XOR8(XOR8(p, b3), mul2[XOR8(b3, b0) + 1])>>

\* One column of MixColumns
mixColumn(b0, b1, b2, b3) ==
   mixColumnOut(XOR8(XOR8(XOR8(b0, b1), b2), b3), b0, b1, b2, b3)

\* MixColumns transformation: loop through the columns of the state array
mixColumns(state) ==
   mixColumn(state[1], state[2], state[3], state[4]) \o
   mixColumn(state[5], state[6], state[7], state[8]) \o
   mixColumn(state[9], state[10], state[11], state[12]) \o
   mixColumn(state[13], state[14], state[15], state[16])

\* One column of InvMixColumns, p and q being the two intermediate variables
invMixColumnOut(p, q, b0, b1, b2, b3) ==
   <<XOR8(XOR8(p, b0), mul2[XOR8(b0, b1) + 1]),
     XOR8(XOR8(q, b1), mul2[XOR8(b1, b2) + 1]),
     XOR8(XOR8(p, b2), mul2[XOR8(b2, b3) + 1]),
     XOR8(XOR8(q, b3), mul2[XOR8(b3, b0) + 1])>>

\* One column of InvMixColumns, q being {09}{b0^b1^b2^b3}
invMixColumnPQ(q, b0, b1, b2, b3) ==
   invMixColumnOut(XOR8(q, mul2[mul2[XOR8(b0, b2) + 1] + 1]),
                   XOR8(q, mul2[mul2[XOR8(b1, b3) + 1] + 1]),
                   b0, b1, b2, b3)

\* q ^ mul2[mul2[q]]: {05}q in place of {09}q
invMixColumnQ_times5(q) == XOR8(q, mul2[mul2[q + 1] + 1])

\* q ^ mul2[mul2[mul2[q]]]
invMixColumnQ(q) == XOR8(q, mul2[mul2[mul2[q + 1] + 1] + 1])

\* One column of InvMixColumns
invMixColumn(b0, b1, b2, b3) ==
   invMixColumnPQ(invMixColumnQ(XOR8(XOR8(XOR8(b0, b1), b2), b3)), b0, b1, b2, b3)

\* InvMixColumns transformation
invMixColumns(state) ==
   invMixColumn(state[1], state[2], state[3], state[4]) \o
   invMixColumn(state[5], state[6], state[7], state[8]) \o
   invMixColumn(state[9], state[10], state[11], state[12]) \o
   invMixColumn(state[13], state[14], state[15], state[16])

\* The key expansion applying the extra subWord for keyLength >= 6
aesExpandTemp_from6(temp, i, keyLength) ==
   IF (i % keyLength) = 0
      THEN XOR32(subWord(rotWord(temp)), rcon[(i \div keyLength) + 1])
   ELSE IF keyLength >= 6 /\ (i % keyLength) = 4
      THEN subWord(temp)
   ELSE temp

\* The word XORed with w[i - keyLength] in the key expansion, temp being
\* the previous word w[i - 1]
aesExpandTemp(temp, i, keyLength) ==
   IF (i % keyLength) = 0
      THEN XOR32(subWord(rotWord(temp)), rcon[(i \div keyLength) + 1])
   ELSE IF keyLength > 6 /\ (i % keyLength) = 4
      THEN subWord(temp)
   ELSE temp

RECURSIVE aesExpandKey(_, _, _, _)
\* The key expansion loop of aesInit: for(i = keyLength; i < keyScheduleSize; i++),
\* with keyLength already divided by 4; w is indexed from 1
aesExpandKey(w, i, keyLength, keyScheduleSize) ==
   IF i >= keyScheduleSize THEN w
   ELSE aesExpandKey(
           [w EXCEPT ![i + 1] = XOR32(w[i - keyLength + 1],
                                      aesExpandTemp(w[i - 1 + 1], i, keyLength))],
           i + 1, keyLength, keyScheduleSize)

\* memcpy(context->w, key, keyLength): the first keyLength bytes of the
\* storage of w are overwritten with the key bytes
aesCopyKey(w, key, keyLength) ==
   [i \in 1..AES_W_SIZE |->
      IF 4 * i <= keyLength THEN LOAD32H(key, 4 * (i - 1)) ELSE w[i]]

\* Number of rounds for a supported key length
aesRounds(keyLength) ==
   IF keyLength = 16 THEN 10 ELSE IF keyLength = 24 THEN 12 ELSE 14

\* Key expansion.  context is [nr, w]; the result is the error code and
\* the context as the call leaves it
aesInit(context, key, keyLength) ==
   IF keyLength \notin {16, 24, 32}
      THEN [error |-> "ERROR_INVALID_KEY_LENGTH", context |-> context]
   ELSE [error |-> "NO_ERROR",
         context |-> [nr |-> aesRounds(keyLength),
                      w |-> aesExpandKey(aesCopyKey(context.w, key, keyLength),
                                         keyLength \div 4, keyLength \div 4,
                                         4 * (aesRounds(keyLength) + 1))]]

RECURSIVE aesEncryptRounds(_, _, _)
RECURSIVE aesEncryptNext(_, _, _)
\* for(i = 1; i < context->nr; i++) of aesEncryptBlock
aesEncryptRounds(context, state, i) ==
   IF i >= context.nr THEN state
   ELSE aesEncryptNext(context,
           addRoundKey(mixColumns(shiftRows(subBytes(state))), context.w, 4 * i), i)

\* The loop continues with the 16 bytes of the iteration just computed
aesEncryptNext(context, state, i) ==
   CASE Len(state) = AES_BLOCK_SIZE -> aesEncryptRounds(context, state, i + 1)

\* The state array of aesEncryptBlock when it is copied to the output,
\* input being the 16 bytes copied to the state array
aesEncryptState(context, input) ==
   addRoundKey(
      shiftRows(subBytes(
         aesEncryptRounds(context, addRoundKey(input, context.w, 0), 1))),
      context.w, 4 * context.nr)

RECURSIVE aesDecryptRounds(_, _, _)
RECURSIVE aesDecryptNext(_, _, _)
\* for(i = context->nr - 1; i >= 1; i--) of aesDecryptBlock
aesDecryptRounds(context, state, i) ==
   IF i < 1 THEN state
   ELSE aesDecryptNext(context,
           invMixColumns(addRoundKey(invSubBytes(invShiftRows(state)), context.w, 4 * i)),
           i)

\* The loop continues with the 16 bytes of the iteration just computed
aesDecryptNext(context, state, i) ==
   CASE Len(state) = AES_BLOCK_SIZE -> aesDecryptRounds(context, state, i - 1)

\* The state array of aesDecryptBlock when it is copied to the output
aesDecryptState(context, input) ==
   addRoundKey(
      invSubBytes(invShiftRows(
         aesDecryptRounds(context, addRoundKey(input, context.w, 4 * context.nr),
                          context.nr - 1))),
      context.w, 0)

(***************************************************************************)
(* Camellia                                                                *)
(***************************************************************************)

\* Camellia block size
CAMELLIA_BLOCK_SIZE == 16

\* Number of 32-bit words of the arrays k and ks of a CamelliaContext
CAMELLIA_K_SIZE == 16
CAMELLIA_KS_SIZE == 68

\* S-function: both words are substituted byte by byte; the result is
\* <<zl, zr>> as the macro leaves them
CAMELLIA_S(zl, zr) ==
   <<
   <<sbox1[zl[1] + 1], sbox2[zl[2] + 1], sbox3[zl[3] + 1], sbox4[zl[4] + 1]>>,
   <<sbox2[zr[1] + 1], sbox3[zr[2] + 1], sbox4[zr[3] + 1], sbox1[zr[4] + 1]>>
   >>

\* Second statement of the P-function rotating by 8 instead of 16
P_2_rol8(z) == <<z[1], XOR32(z[2], ROL32(z[1], 8))>>

\* The four statements of the P-function, each on z = <<zl, zr>>
P_1(z) == <<XOR32(z[1], ROL32(z[2], 8)), z[2]>>
P_2(z) == <<z[1], XOR32(z[2], ROL32(z[1], 16))>>
P_3(z) == <<XOR32(z[1], ROR32(z[2], 8)), z[2]>>
P_4(z) == <<z[1], XOR32(z[2], ROR32(z[1], 8))>>

\* P-function; the result is <<zl, zr>> as the macro leaves them
CAMELLIA_P(zl, zr) == P_4(P_3(P_2(P_1(<<zl, zr>>))))

\* The statements of the round function after the P-function with temp1
\* XORed with right1 and temp2 with right2
RoundOut_straight(t, left1, left2, right1, right2) ==
   <<XOR32(t[2], right2), XOR32(t[1], right1), left1, left2>>

\* The statements of the round function after the P-function: t is
\* <<temp1, temp2>>
RoundOut(t, left1, left2, right1, right2) ==
   <<XOR32(t[2], right1), XOR32(t[1], right2), left1, left2>>

\* CAMELLIA_P applied to the pair CAMELLIA_S leaves
CAMELLIA_SP(temp1, temp2) == P_4(P_3(P_2(P_1(CAMELLIA_S(temp1, temp2)))))

\* Camellia round function; the result is <<left1, left2, right1, right2>>
\* as the macro leaves them
CAMELLIA_ROUND(left1, left2, right1, right2, k1, k2) ==
   RoundOut(CAMELLIA_SP(XOR32(left1, k1), XOR32(left2, k2)),
            left1, left2, right1, right2)

\* The last statement of the FL-function, xr being already updated
FlOut(xl, xr, kr) == <<XOR32(xl, OR32(xr, kr)), xr>>

\* FL-function; the result is <<xl, xr>> as the macro leaves them
CAMELLIA_FL(xl, xr, kl, kr) ==
   FlOut(xl, XOR32(xr, ROL32(AND32(xl, kl), 1)), kr)

\* The last statements of the inverse FL-function, yl being already updated
InvFlOut(yl, yr, kl) == <<yl, XOR32(yr, ROL32(AND32(yl, kl), 1))>>

\* Inverse FL-function with its statements in the order of the FL-function
CAMELLIA_INV_FL_flOrder(yl, yr, kl, kr) ==
   FlOut(yl, XOR32(yr, ROL32(AND32(yl, kl), 1)), kr)

\* Inverse FL-function; the result is <<yl, yr>> as the macro leaves them
CAMELLIA_INV_FL(yl, yr, kl, kr) ==
   InvFlOut(XOR32(yl, OR32(yr, kr)), yr, kl)

\* Key schedule related constants
KL == 0
KR == 4
KA == 8
KB == 12
L == 0
R == 64

\* Key schedule for 128-bit key: <<index, key, shift, position>>
ks1 ==
   <<
   <<0, KL, 0, L>>,
   <<2, KL, 0, R>>,
   <<4, KA, 0, L>>,
   <<6, KA, 0, R>>,
   <<8, KL, 15, L>>,
   <<10, KL, 15, R>>,
   <<12, KA, 15, L>>,
   <<14, KA, 15, R>>,
   <<16, KA, 30, L>>,
   <<18, KA, 30, R>>,
   <<20, KL, 45, L>>,
   <<22, KL, 45, R>>,
   <<24, KA, 45, L>>,
   <<26, KL, 60, R>>,
   <<28, KA, 60, L>>,
   <<30, KA, 60, R>>,
   <<32, KL, 77, L>>,
   <<34, KL, 77, R>>,
   <<36, KL, 94, L>>,
   <<38, KL, 94, R>>,
   <<40, KA, 94, L>>,
   <<42, KA, 94, R>>,
   <<44, KL, 111, L>>,
   <<46, KL, 111, R>>,
   <<48, KA, 111, L>>,
   <<50, KA, 111, R>>
   >>

\* Key schedule for 192 and 256-bit keys
ks2 ==
   <<
   <<0, KL, 0, L>>,
   <<2, KL, 0, R>>,
   <<4, KB, 0, L>>,
   <<6, KB, 0, R>>,
   <<8, KR, 15, L>>,
   <<10, KR, 15, R>>,
   <<12, KA, 15, L>>,
   <<14, KA, 15, R>>,
   <<16, KR, 30, L>>,
   <<18, KR, 30, R>>,
   <<20, KB, 30, L>>,
   <<22, KB, 30, R>>,
   <<24, KL, 45, L>>,
   <<26, KL, 45, R>>,
   <<28, KA, 45, L>>,
   <<30, KA, 45, R>>,
   <<32, KL, 60, L>>,
   <<34, KL, 60, R>>,
   <<36, KR, 60, L>>,
   <<38, KR, 60, R>>,
   <<40, KB, 60, L>>,
   <<42, KB, 60, R>>,
   <<44, KL, 77, L>>,
   <<46, KL, 77, R>>,
   <<48, KA, 77, L>>,
   <<50, KA, 77, R>>,
   <<52, KR, 94, L>>,
   <<54, KR, 94, R>>,
   <<56, KA, 94, L>>,
   <<58, KA, 94, R>>,
   <<60, KL, 111, L>>,
   <<62, KL, 111, R>>,
   <<64, KB, 111, L>>,
   <<66, KB, 111, R>>
   >>

\* Key schedule constants
sigma ==
   <<
   <<\hA0, \h9E, \h66, \h7F>>,
   <<\h3B, \hCC, \h90, \h8B>>,
   <<\hB6, \h7A, \hE8, \h58>>,
   <<\h4C, \hAA, \h73, \hB2>>,
   <<\hC6, \hEF, \h37, \h2F>>,
   <<\hE9, \h4F, \h82, \hBE>>,
   <<\h54, \hFF, \h53, \hA5>>,
   <<\hF1, \hD3, \h6F, \h1C>>,
   <<\h10, \hE5, \h27, \hFA>>,
   <<\hDE, \h68, \h2D, \h1D>>,
   <<\hB0, \h56, \h88, \hC2>>,
   <<\hB3, \hE6, \hC1, \hFD>>
   >>

\* memcpy(k, key, keyLength) without the memset: the words of k beyond the
\* key keep what they held
camelliaCopyKey_noClear(k, key, keyLength) ==
   [j \in 1..CAMELLIA_K_SIZE |->
      IF 4 * j <= keyLength THEN LOAD32H(key, 4 * (j - 1)) ELSE k[j]]

\* memset(k, 0, 64) then memcpy(k, key, keyLength): the array k (indexed
\* from 1) keeps nothing of what it held before
camelliaCopyKey(k, key, keyLength) ==
   [j \in 1..CAMELLIA_K_SIZE |->
      IF 4 * j <= keyLength THEN LOAD32H(key, 4 * (j - 1)) ELSE <<0, 0, 0, 0>>]

\* Forming the 256-bit key with the complements crossed
camelliaForm256_crossed(k, keyLength) ==
   IF keyLength = 24
      THEN [k EXCEPT ![KR + 2 + 1] = NOT32(k[KR + 1 + 1]),
                     ![KR + 3 + 1] = NOT32(k[KR + 0 + 1])]
   ELSE k

\* 192-bit keys require special processing: form a 256-bit key
camelliaForm256(k, keyLength) ==
   IF keyLength = 24
      THEN [k EXCEPT ![KR + 2 + 1] = NOT32(k[KR + 0 + 1]),
                     ![KR + 3 + 1] = NOT32(k[KR + 1 + 1])]
   ELSE k

\* for(i = 0; i < 4; i++): k[KL + i] = betoh32(k[KL + i]);
\* k[KR + i] = betoh32(k[KR + i]); k[KB + i] = k[KL + i] ^ k[KR + i]
camelliaXorKlKr(k) ==
   [j \in 1..CAMELLIA_K_SIZE |->
      IF j - 1 < KA THEN betoh32(k[j])
      ELSE IF j - 1 < KB THEN k[j]
      ELSE XOR32(betoh32(k[KL + (j - 1 - KB) + 1]), betoh32(k[KR + (j - 1 - KB) + 1]))]

\* camelliaInit from "Clear key contents" to "XOR KL and KR before applying
\* the rounds": the array k after the key has been loaded
camelliaLoadKey(k, key, keyLength) ==
   camelliaXorKlKr(camelliaForm256(camelliaCopyKey(k, key, keyLength), keyLength))

\* k after the four words r have been assigned to k[KB + 0 .. KB + 3]
SetKB(k, r) ==
   [k EXCEPT ![KB + 0 + 1] = r[1], ![KB + 1 + 1] = r[2],
             ![KB + 2 + 1] = r[3], ![KB + 3 + 1] = r[4]]

\* k[KB + j] ^= k[bank + j] for j = 0..3
XorIntoKB(k, bank) ==
   [k EXCEPT ![KB + 0 + 1] = XOR32(k[KB + 0 + 1], k[bank + 0 + 1]),
             ![KB + 1 + 1] = XOR32(k[KB + 1 + 1], k[bank + 1 + 1]),
             ![KB + 2 + 1] = XOR32(k[KB + 2 + 1], k[bank + 2 + 1]),
             ![KB + 3 + 1] = XOR32(k[KB + 3 + 1], k[bank + 3 + 1])]

\* memcpy(k + KA, k + KB, 16)
SaveKA(k) ==
   [k EXCEPT ![KA + 0 + 1] = k[KB + 0 + 1], ![KA + 1 + 1] = k[KB + 1 + 1],
             ![KA + 2 + 1] = k[KB + 2 + 1], ![KA + 3 + 1] = k[KB + 3 + 1]]

\* One iteration of the loop generating KA and KB: the round function on
\* KB, then the special processing of the 2nd and the 4th round
camelliaKaKbStep(k, i) ==
   IF i = 1 THEN XorIntoKB(k, KL)
   ELSE IF i = 3 THEN XorIntoKB(SaveKA(k), KR)
   ELSE k

camelliaKaKbRound(k, i) ==
   SetKB(k, CAMELLIA_ROUND(k[KB + 0 + 1], k[KB + 1 + 1], k[KB + 2 + 1], k[KB + 3 + 1],
                           sigma[2 * i + 1], sigma[2 * i + 1 + 1]))

RECURSIVE camelliaGenerateKaKb(_, _)
\* camelliaInit, "Generate the 128-bit keys KA and KB": for(i = 0; i < 6; i++)
camelliaGenerateKaKb(k, i) ==
   IF i >= 6 THEN k
   ELSE camelliaGenerateKaKb(camelliaKaKbStep(camelliaKaKbRound(k, i), i), i + 1)

\* k[j] of the subkey generation, k pointing to the bank of entry p
BankWord(kk, p, j) == kk[p[2] + j + 1]

\* The two words of a subkey whose shift count is n words and m bits
camelliaShifted(kk, p, n, m) ==
   IF m = 0
      THEN <<BankWord(kk, p, n % 4), BankWord(kk, p, (n + 1) % 4)>>
   ELSE <<OR32(SHL32(BankWord(kk, p, n % 4), m),
               SHR32(BankWord(kk, p, (n + 1) % 4), 32 - m)),
          OR32(SHL32(BankWord(kk, p, (n + 1) % 4), m),
               SHR32(BankWord(kk, p, (n + 2) % 4), 32 - m))>>

\* The shift count taken from p->shift alone, without p->position
camelliaSubkey_noPosition(kk, p) ==
   camelliaShifted(kk, p, p[3] \div 32, p[3] % 32)

\* camelliaInit, "Generate the current subkey": the two words written to
\* ks[p->index] and ks[p->index + 1] for the table entry
\* p = <<index, key, shift, position>>
camelliaSubkey(kk, p) ==
   camelliaShifted(kk, p, (p[3] + p[4]) \div 32, (p[3] + p[4]) % 32)

\* ks after the subkey sk has been stored for the table entry p
StoreSubkey(ks, p, sk) ==
   [ks EXCEPT ![p[1] + 1] = sk[1], ![p[1] + 1 + 1] = sk[2]]

RECURSIVE camelliaGenerateSubkeys(_, _, _, _)
\* camelliaInit, "Generate subkeys": while(i > 0) over the table p, whose
\* current entry is p[j]
camelliaGenerateSubkeys(ks, kk, p, j) ==
   IF j > Len(p) THEN ks
   ELSE camelliaGenerateSubkeys(StoreSubkey(ks, p[j], camelliaSubkey(kk, p[j])),
                                kk, p, j + 1)

\* The context camelliaInit leaves when the subkeys of every key length are
\* generated from the table ks2
camelliaContextOf_ks2(context, k, keyLength) ==
   [nr |-> IF keyLength = 16 THEN 18 ELSE 24,
    k |-> k,
    ks |-> camelliaGenerateSubkeys(context.ks, k, ks2, 1)]

\* The context camelliaInit leaves for a supported key length, k being the
\* array k after the generation of KA and KB
camelliaContextOf(context, k, keyLength) ==
   [nr |-> IF keyLength = 16 THEN 18 ELSE 24,
    k |-> k,
    ks |-> camelliaGenerateSubkeys(context.ks, k,
                                   IF keyLength = 16 THEN ks1 ELSE ks2, 1)]

\* camelliaInit clearing the key material of the context before the key
\* length is validated
camelliaInit_clearFirst(context, key, keyLength) ==
   IF keyLength \notin {16, 24, 32}
      THEN [error |-> "ERROR_INVALID_KEY_LENGTH",
            context |-> [context EXCEPT !.k = [j \in 1..CAMELLIA_K_SIZE |-> <<0, 0, 0, 0>>]]]
   ELSE [error |-> "NO_ERROR",
         context |-> camelliaContextOf(context,
                        camelliaGenerateKaKb(camelliaLoadKey(context.k, key, keyLength), 0),
                        keyLength)]

\* Initialize a Camellia context using the supplied key.  context is
\* [nr, k, ks]; the result is the error code and the context as the call
\* leaves it
camelliaInit(context, key, keyLength) ==
   IF keyLength \notin {16, 24, 32}
      THEN [error |-> "ERROR_INVALID_KEY_LENGTH", context |-> context]
   ELSE [error |-> "NO_ERROR",
         context |-> camelliaContextOf(context,
                        camelliaGenerateKaKb(camelliaLoadKey(context.k, key, keyLength), 0),
                        keyLength)]

\* The special processing without the case of the 24-round schedule
camelliaSpecial_no19(i) == i = 7 \/ i = 13

\* TRUE for the rounds after which FL and FL^-1 are applied: i is the
\* loop counter, running from context->nr down to 1
camelliaSpecial(i) == i = 7 \/ i = 13 \/ i = 19

\* The FL and inverse FL step of camelliaEncryptBlock: x is
\* <<left1, left2, right1, right2>>, o the offset of ks into context->ks
camelliaEncryptFl(ks, x, o) ==
   CAMELLIA_FL(x[1], x[2], ks[o + 0 + 1], ks[o + 1 + 1])
      \o CAMELLIA_INV_FL(x[3], x[4], ks[o + 2 + 1], ks[o + 3 + 1])

\* One iteration of the round loop of camelliaEncryptBlock
camelliaEncryptRound(ks, x, o, i) ==
   IF camelliaSpecial(i)
      THEN camelliaEncryptFl(ks,
              CAMELLIA_ROUND(x[1], x[2], x[3], x[4], ks[o + 0 + 1], ks[o + 1 + 1]),
              o + 2)
   ELSE CAMELLIA_ROUND(x[1], x[2], x[3], x[4], ks[o + 0 + 1], ks[o + 1 + 1])

RECURSIVE camelliaEncryptRounds(_, _, _, _)
RECURSIVE camelliaEncryptNext(_, _, _, _)
\* for(i = context->nr; i > 0; i--) of camelliaEncryptBlock; the result is
\* <<left1, left2, right1, right2, o>> after the loop
camelliaEncryptRounds(ks, x, o, i) ==
   IF i <= 0 THEN Append(x, o)
   ELSE camelliaEncryptNext(ks, camelliaEncryptRound(ks, x, o, i), o, i)

\* The loop continues with the four words of the iteration just computed
camelliaEncryptNext(ks, x, o, i) ==
   CASE Len(x) = 4 ->
      camelliaEncryptRounds(ks, x, IF camelliaSpecial(i) THEN o + 6 ELSE o + 2, i - 1)

\* The 16 bytes stored to the output: e is <<left1, left2, right1, right2, o>>
\* before "XOR operation with kw3 and kw4"
camelliaEncryptStore(ks, e) ==
   BYTES32BE(XOR32(e[3], ks[e[5] + 0 + 1])) \o
   BYTES32BE(XOR32(e[4], ks[e[5] + 1 + 1])) \o
   BYTES32BE(XOR32(e[1], ks[e[5] + 2 + 1])) \o
   BYTES32BE(XOR32(e[2], ks[e[5] + 3 + 1]))

\* The 16 bytes camelliaEncryptBlock stores to the output for the 16
\* input bytes
camelliaEncryptWords(context, input) ==
   camelliaEncryptStore(context.ks,
      camelliaEncryptRounds(context.ks,
         <<XOR32(LOAD32BE(input, 0), context.ks[0 + 1]),
           XOR32(LOAD32BE(input, 4), context.ks[1 + 1]),
           XOR32(LOAD32BE(input, 8), context.ks[2 + 1]),
           XOR32(LOAD32BE(input, 12), context.ks[3 + 1])>>,
         4, context.nr))

\* The FL and inverse FL step of camelliaDecryptBlock with the subkey
\* pairs of FL and of the inverse FL exchanged
camelliaDecryptFl_swapped(ks, x, o) ==
   CAMELLIA_FL(x[1], x[2], ks[o + 0 + 1], ks[o + 1 + 1])
      \o CAMELLIA_INV_FL(x[3], x[4], ks[o + 2 + 1], ks[o + 3 + 1])

\* The FL and inverse FL step of camelliaDecryptBlock: x is
\* <<right1, right2, left1, left2>>, o the offset of ks after ks -= 4
camelliaDecryptFl(ks, x, o) ==
   CAMELLIA_FL(x[1], x[2], ks[o + 2 + 1], ks[o + 3 + 1])
      \o CAMELLIA_INV_FL(x[3], x[4], ks[o + 0 + 1], ks[o + 1 + 1])

\* One iteration of the round loop of camelliaDecryptBlock, o being the
\* offset of ks after ks -= 2
camelliaDecryptRound(ks, x, o, i) ==
   IF camelliaSpecial(i)
      THEN camelliaDecryptFl(ks,
              CAMELLIA_ROUND(x[1], x[2], x[3], x[4], ks[o + 0 + 1], ks[o + 1 + 1]),
              o - 4)
   ELSE CAMELLIA_ROUND(x[1], x[2], x[3], x[4], ks[o + 0 + 1], ks[o + 1 + 1])

RECURSIVE camelliaDecryptRounds(_, _, _, _)
RECURSIVE camelliaDecryptNext(_, _, _, _)
\* for(i = context->nr; i > 0; i--) of camelliaDecryptBlock; the result is
\* <<right1, right2, left1, left2, o>> after the loop
camelliaDecryptRounds(ks, x, o, i) ==
   IF i <= 0 THEN Append(x, o)
   ELSE camelliaDecryptNext(ks, camelliaDecryptRound(ks, x, o - 2, i), o, i)

\* The loop continues with the four words of the iteration just computed
camelliaDecryptNext(ks, x, o, i) ==
   CASE Len(x) = 4 ->
      camelliaDecryptRounds(ks, x, IF camelliaSpecial(i) THEN o - 6 ELSE o - 2, i - 1)

\* The 16 bytes stored to the output: d is <<right1, right2, left1, left2, o>>
\* after the loop, before the last ks -= 4
camelliaDecryptStore(ks, d) ==
   BYTES32BE(XOR32(d[3], ks[d[5] - 4 + 0 + 1])) \o
   BYTES32BE(XOR32(d[4], ks[d[5] - 4 + 1 + 1])) \o
   BYTES32BE(XOR32(d[1], ks[d[5] - 4 + 2 + 1])) \o
   BYTES32BE(XOR32(d[2], ks[d[5] - 4 + 3 + 1]))

\* The two start offsets exchanged
camelliaDecryptStart_exchanged(context) == IF context.nr = 18 THEN 64 ELSE 48

\* The decryption starting at the end of the 68-word schedule whatever the
\* number of rounds
camelliaDecryptStart_always64(context) == 64

\* The offset into context->ks at which camelliaDecryptBlock starts
camelliaDecryptStart(context) == IF context.nr = 18 THEN 48 ELSE 64

\* The 16 bytes camelliaDecryptBlock stores to the output for the 16
\* input bytes
camelliaDecryptWords(context, input) ==
   camelliaDecryptStore(context.ks,
      camelliaDecryptRounds(context.ks,
         <<XOR32(LOAD32BE(input, 0), context.ks[camelliaDecryptStart(context) + 0 + 1]),
           XOR32(LOAD32BE(input, 4), context.ks[camelliaDecryptStart(context) + 1 + 1]),
           XOR32(LOAD32BE(input, 8), context.ks[camelliaDecryptStart(context) + 2 + 1]),
           XOR32(LOAD32BE(input, 12), context.ks[camelliaDecryptStart(context) + 3 + 1])>>,
         camelliaDecryptStart(context), context.nr))

(***************************************************************************)
(* The block operations on caller memory                                   *)
(***************************************************************************)

\* The n bytes of mem from byte offset off
MemRead(mem, off, n) == SubSeq(mem, off + 1, off + n)

\* mem after bytes have been written from byte offset off
MemWrite(mem, off, bytes) ==
   SubSeq(mem, 1, off) \o bytes \o SubSeq(mem, off + Len(bytes) + 1, Len(mem))

\* Encrypt a 16-byte block using AES algorithm: input and output are byte
\* offsets into mem; the result is the context and the memory after the call
aesEncryptBlock(context, mem, input, output) ==
   [context |-> context,
    mem |-> MemWrite(mem, output,
               aesEncryptState(context, MemRead(mem, input, AES_BLOCK_SIZE)))]

\* aesDecryptBlock keeping its state array in the first four words of the
\* key schedule
aesDecryptBlock_stateInW(context, mem, input, output) ==
   [context |-> [context EXCEPT
                    !.w[1] = LOAD32H(aesDecryptState(context, MemRead(mem, input, AES_BLOCK_SIZE)), 0)],
    mem |-> MemWrite(mem, output,
               aesDecryptState(context, MemRead(mem, input, AES_BLOCK_SIZE)))]

\* Decrypt a 16-byte block using AES algorithm
aesDecryptBlock(context, mem, input, output) ==
   [context |-> context,
    mem |-> MemWrite(mem, output,
               aesDecryptState(context, MemRead(mem, input, AES_BLOCK_SIZE)))]

\* camelliaEncryptBlock clearing the output block before the input block
\* is loaded
camelliaEncryptBlock_clearOutput(context, mem, input, output) ==
   [context |-> context,
    mem |-> MemWrite(mem, output,
               camelliaEncryptWords(context,
                  MemRead(MemWrite(mem, output, [j \in 1..CAMELLIA_BLOCK_SIZE |-> 0]),
                          input, CAMELLIA_BLOCK_SIZE)))]

\* Encrypt a 16-byte block using Camellia algorithm
camelliaEncryptBlock(context, mem, input, output) ==
   [context |-> context,
    mem |-> MemWrite(mem, output,
               camelliaEncryptWords(context, MemRead(mem, input, CAMELLIA_BLOCK_SIZE)))]

\* Decrypt a 16-byte block using Camellia algorithm
camelliaDecryptBlock(context, mem, input, output) ==
   [context |-> context,
    mem |-> MemWrite(mem, output,
               camelliaDecryptWords(context, MemRead(mem, input, CAMELLIA_BLOCK_SIZE)))]

(***************************************************************************)
(* The caller: one context of one algorithm, two 16-byte buffers           *)
(***************************************************************************)

\* Number of calls the caller makes in one run
MaxCalls == 3

\* FIPS-197 appendix C key bytes 00..1F; the first 16, 24 or 32 are the key
FipsKey == [i \in 1..32 |-> i - 1]

\* FIPS-197 appendix C plaintext
FipsPlaintext ==
   <<\h00, \h11, \h22, \h33, \h44, \h55, \h66, \h77,
     \h88, \h99, \hAA, \hBB, \hCC, \hDD, \hEE, \hFF>>

\* RFC 3713 key bytes; the first 16, 24 or 32 are the key
RfcKey ==
   <<\h01, \h23, \h45, \h67, \h89, \hAB, \hCD, \hEF,
     \hFE, \hDC, \hBA, \h98, \h76, \h54, \h32, \h10,
     \h00, \h11, \h22, \h33, \h44, \h55, \h66, \h77,
     \h88, \h99, \hAA, \hBB, \hCC, \hDD, \hEE, \hFF>>

\* RFC 3713 plaintext
RfcPlaintext == SubSeq(RfcKey, 1, 16)

\* Key buffers and key lengths the caller passes to the initializers
AesKeys == {FipsKey}
CamelliaKeys == {RfcKey}
KeyLengths == {16, 20, 24, 32}

\* Byte offsets of the two buffers in the caller's memory
Buffers == {0, 16}

\* Byte values a context allocated but not yet initialized may be filled with
FillBytes == {\hA5}

\* A context before its first initialization: every byte is the fill byte
AesFresh(f) ==
   [nr |-> f, w |-> [i \in 1..AES_W_SIZE |-> <<f, f, f, f>>]]
CamelliaFresh(f) ==
   [nr |-> f, k |-> [i \in 1..CAMELLIA_K_SIZE |-> <<f, f, f, f>>],
    ks |-> [i \in 1..CAMELLIA_KS_SIZE |-> <<f, f, f, f>>]]

VARIABLES
   algo,      \* the algorithm of the context: "AES" or "CAMELLIA"
   context,   \* the cipher context (AesContext or CamelliaContext)
   ready,     \* TRUE once an initialization of the context has succeeded
   mem,       \* the caller's memory: 32 bytes, a buffer at each of Buffers
   current,   \* key and keyLength of the latest successful initialization
   hist,      \* the latest calls, at most two, oldest first: the call, its
              \* arguments and result, the 16 bytes it read and wrote, the
              \* context and the latest accepted key before it
   calls,     \* number of calls made
   pc,        \* the position inside the function that is running: "caller"
              \* between the calls of the API
   local,     \* the local variables or operands of the function at pc
   trace      \* what the function at pc has done so far, oldest first

vars == <<algo, context, ready, mem, current, hist, calls, pc, local, trace>>

\* The variables of the API and those of the function that is running
apiVars == <<algo, context, ready, mem, current, hist, calls>>
runVars == <<pc, local, trace>>

\* hist after a call
Record(call) == IF Len(hist) = 2 THEN <<hist[2], call>> ELSE Append(hist, call)

NoKey == [key |-> <<>>, keyLength |-> 0]

Init ==
   /\ algo \in {"AES", "CAMELLIA"}
   /\ \E f \in FillBytes :
         context = IF algo = "AES" THEN AesFresh(f) ELSE CamelliaFresh(f)
   /\ ready = FALSE
   /\ mem = (IF algo = "AES" THEN FipsPlaintext ELSE RfcPlaintext)
               \o [i \in 1..16 |-> 0]
   /\ current = NoKey
   /\ hist = <<>>
   /\ calls = 0
   /\ pc = "caller"
   /\ local = <<>>
   /\ trace = <<>>

\* The caller's state after an initializer has returned r, the error code
\* and the context
InitReturns(name, r, key, keyLength) ==
   /\ context' = r.context
   /\ ready' = (ready \/ r.error = "NO_ERROR")
   /\ current' = IF r.error = "NO_ERROR"
                    THEN [key |-> key, keyLength |-> keyLength]
                 ELSE current
   /\ hist' = Record([op |-> name, error |-> r.error, key |-> key,
                      keyLength |-> keyLength, input |-> 0, output |-> 0,
                      inBytes |-> <<>>, outBytes |-> <<>>, before |-> context,
                      keyed |-> current])
   /\ calls' = calls + 1
   /\ UNCHANGED <<algo, mem, runVars>>

\* The caller's state after a block operation has returned, r being the
\* context and the memory as it leaves them
BlockReturns(name, r, input, output) ==
   /\ context' = r.context
   /\ mem' = r.mem
   /\ hist' = Record([op |-> name, error |-> "NO_ERROR", key |-> <<>>,
                      keyLength |-> 0, input |-> input, output |-> output,
                      inBytes |-> MemRead(mem, input, 16),
                      outBytes |-> MemRead(r.mem, output, 16),
                      before |-> context, keyed |-> current])
   /\ calls' = calls + 1
   /\ UNCHANGED <<algo, ready, current, runVars>>

AesInit ==
   /\ algo = "AES"
   /\ calls < MaxCalls
   /\ \E key \in AesKeys, keyLength \in KeyLengths :
         \E r \in {aesInit(context, key, keyLength)} :
            InitReturns("aesInit", r, key, keyLength)

AesEncryptBlock ==
   /\ algo = "AES"
   /\ calls < MaxCalls
   /\ ready
   /\ \E input \in Buffers, output \in Buffers :
         \E r \in {aesEncryptBlock(context, mem, input, output)} :
            BlockReturns("aesEncryptBlock", r, input, output)

AesDecryptBlock ==
   /\ algo = "AES"
   /\ calls < MaxCalls
   /\ ready
   /\ \E input \in Buffers, output \in Buffers :
         \E r \in {aesDecryptBlock(context, mem, input, output)} :
            BlockReturns("aesDecryptBlock", r, input, output)

CamelliaInit ==
   /\ algo = "CAMELLIA"
   /\ calls < MaxCalls
   /\ \E key \in CamelliaKeys, keyLength \in KeyLengths :
         \E r \in {camelliaInit(context, key, keyLength)} :
            InitReturns("camelliaInit", r, key, keyLength)

CamelliaEncryptBlock ==
   /\ algo = "CAMELLIA"
   /\ calls < MaxCalls
   /\ ready
   /\ \E input \in Buffers, output \in Buffers :
         \E r \in {camelliaEncryptBlock(context, mem, input, output)} :
            BlockReturns("camelliaEncryptBlock", r, input, output)

CamelliaDecryptBlock ==
   /\ algo = "CAMELLIA"
   /\ calls < MaxCalls
   /\ ready
   /\ \E input \in Buffers, output \in Buffers :
         \E r \in {camelliaDecryptBlock(context, mem, input, output)} :
            BlockReturns("camelliaDecryptBlock", r, input, output)

Next ==
   \/ AesInit
   \/ AesEncryptBlock
   \/ AesDecryptBlock
   \/ CamelliaInit
   \/ CamelliaEncryptBlock
   \/ CamelliaDecryptBlock

Spec == Init /\ [][Next]_vars

(***************************************************************************)
(* The functions of the two ciphers, applied to operands of their own: the *)
(* tables, the transformations of the AES state and the macros of the      *)
(* Camellia rounds.  pc is the function applied last, local its operands   *)
(* (kind, value, subkeys) and trace the applications, oldest first.        *)
(***************************************************************************)

\* Number of applications in a row
MaxApply == 2

\* Bytes of the columns and words of the halves the functions are applied to
FnBytes == {\h00, \h01, \h80, \hFF}
FnWords ==
   {<<\h00, \h00, \h00, \h00>>, <<\hFF, \hFF, \hFF, \hFF>>,
    <<\h01, \h23, \h45, \h67>>, <<\h80, \h00, \h00, \h01>>}
FnSubkeys == {<<\hA0, \h9E, \h66, \h7F>>, <<\h3B, \hCC, \h90, \h8B>>}

\* No context, no caller memory: the API is not in use
ApiIdle ==
   /\ algo = "NONE"
   /\ context = <<>>
   /\ ready = FALSE
   /\ mem = <<>>
   /\ current = NoKey
   /\ hist = <<>>
   /\ calls = 0

Operands(kind, val, key) == [kind |-> kind, val |-> val, key |-> key]

\* The state array whose column slot is col, the other columns being those
\* of FipsPlaintext
StateWith(col, slot) ==
   SubSeq(FipsPlaintext, 1, 4 * slot) \o col
      \o SubSeq(FipsPlaintext, 4 * slot + 5, AES_BLOCK_SIZE)

InitFn ==
   /\ ApiIdle
   /\ pc = "start"
   /\ trace = <<>>
   /\ \/ \E x \in Byte : local = Operands("byte", <<x>>, <<>>)
      \/ \E i \in 0..10 : local = Operands("index", <<i>>, <<>>)
      \/ \E b0 \in FnBytes, b1 \in FnBytes, b2 \in FnBytes, b3 \in FnBytes, slot \in 0..3 :
            local = Operands("state", StateWith(<<b0, b1, b2, b3>>, slot), <<slot>>)
      \/ \E x1 \in FnWords, x2 \in FnWords, k1 \in FnWords, k2 \in FnWords :
            local = Operands("pair", <<x1, x2>>, <<k1, k2>>)
      \/ \E l1 \in FnWords, l2 \in FnWords, r1 \in FnWords, r2 \in FnWords,
            k1 \in FnSubkeys, k2 \in FnSubkeys :
            local = Operands("halves", <<l1, l2, r1, r2>>, <<k1, k2>>)

\* Operands of the given kind are there and may have a function applied
CanApply(kind) ==
   /\ pc # "caller"
   /\ local.kind = kind
   /\ Len(trace) < MaxApply

\* The function fn has been applied to local.val and has left out
Applied(fn, out) ==
   /\ pc' = fn
   /\ local' = [local EXCEPT !.val = out]
   /\ trace' = Append(trace, [fn |-> fn, in |-> local.val, out |-> out])
   /\ UNCHANGED apiVars

ApplySbox == CanApply("byte") /\ Applied("sbox", <<sbox[local.val[1] + 1]>>)

ApplyIsbox == CanApply("byte") /\ Applied("isbox", <<isbox[local.val[1] + 1]>>)

ApplyMul2 == CanApply("byte") /\ Applied("mul2", <<mul2[local.val[1] + 1]>>)

ApplyRcon ==
   /\ CanApply("index")
   /\ trace = <<>>
   /\ Applied("rcon", rcon[local.val[1] + 1])

ApplySubBytes == CanApply("state") /\ Applied("subBytes", subBytes(local.val))

ApplyInvSubBytes == CanApply("state") /\ Applied("invSubBytes", invSubBytes(local.val))

ApplyMixColumns == CanApply("state") /\ Applied("mixColumns", mixColumns(local.val))

ApplyInvMixColumns ==
   CanApply("state") /\ Applied("invMixColumns", invMixColumns(local.val))

ApplyFl ==
   /\ CanApply("pair")
   /\ Applied("CAMELLIA_FL",
         CAMELLIA_FL(local.val[1], local.val[2], local.key[1], local.key[2]))

ApplyInvFl ==
   /\ CanApply("pair")
   /\ Applied("CAMELLIA_INV_FL",
         CAMELLIA_INV_FL(local.val[1], local.val[2], local.key[1], local.key[2]))

ApplyRound ==
   /\ CanApply("halves")
   /\ Applied("CAMELLIA_ROUND",
         CAMELLIA_ROUND(local.val[1], local.val[2], local.val[3], local.val[4],
                        local.key[1], local.key[2]))

NextFn ==
   \/ ApplySbox
   \/ ApplyIsbox
   \/ ApplyMul2
   \/ ApplyRcon
   \/ ApplySubBytes
   \/ ApplyInvSubBytes
   \/ ApplyMixColumns
   \/ ApplyInvMixColumns
   \/ ApplyFl
   \/ ApplyInvFl
   \/ ApplyRound

SpecFn == InitFn /\ [][NextFn]_vars

(***************************************************************************)
(* camelliaEncryptBlock and camelliaDecryptBlock statement by statement,   *)
(* on a context camelliaInit has keyed.  pc is the position in the         *)
(* function; local holds input, output, the four words x (left1, left2,    *)
(* right1, right2 when encrypting; right1, right2, left1, left2 when       *)
(* decrypting), the offset ks into context->ks and the loop counter i;     *)
(* trace holds one entry per statement group executed: the group, the      *)
(* indices of context->ks it reads in the order the source names them, and *)
(* for FL and FL^-1 the halves they are applied to.                        *)
(***************************************************************************)

\* Number of block operations run statement by statement
MaxBlocks == 1

InitRun ==
   /\ algo = "CAMELLIA"
   /\ \E keyLength \in {16, 24, 32}, f \in FillBytes :
         /\ context = camelliaInit(CamelliaFresh(f), RfcKey, keyLength).context
         /\ current = [key |-> RfcKey, keyLength |-> keyLength]
   /\ ready = TRUE
   /\ mem = RfcPlaintext \o [i \in 1..16 |-> 0]
   /\ hist = <<>>
   /\ calls = 0
   /\ pc = "caller"
   /\ local = <<>>
   /\ trace = <<>>

\* An entry of trace
Executed(group, reads, fl, invFl) ==
   [group |-> group, reads |-> reads, fl |-> fl, invFl |-> invFl]

\* The four words at byte offset input of mem, each XORed with the word of
\* context->ks at o, o + 1, o + 2, o + 3
WhitenedInput(input, o) ==
   <<XOR32(LOAD32BE(mem, input + 0), context.ks[o + 0 + 1]),
     XOR32(LOAD32BE(mem, input + 4), context.ks[o + 1 + 1]),
     XOR32(LOAD32BE(mem, input + 8), context.ks[o + 2 + 1]),
     XOR32(LOAD32BE(mem, input + 12), context.ks[o + 3 + 1])>>

\* The function op is entered: its locals after the whitening of the input
Entered(op, input, output, o, ksAfter) ==
   /\ pc = "caller"
   /\ algo = "CAMELLIA"
   /\ ready
   /\ calls < MaxBlocks
   /\ local' = [op |-> op, input |-> input, output |-> output,
                inBytes |-> MemRead(mem, input, CAMELLIA_BLOCK_SIZE),
                x |-> WhitenedInput(input, o), ks |-> ksAfter, i |-> context.nr]
   /\ trace' = <<Executed("whiten", <<o, o + 1, o + 2, o + 3>>, "", "")>>
   /\ UNCHANGED apiVars

\* The function returns, having stored bytes to the output
Returned(bytes, reads) ==
   /\ mem' = MemWrite(mem, local.output, bytes)
   /\ hist' = Record([op |-> local.op, error |-> "NO_ERROR", key |-> <<>>,
                      keyLength |-> 0, input |-> local.input,
                      output |-> local.output, inBytes |-> local.inBytes,
                      outBytes |-> bytes, before |-> context, keyed |-> current])
   /\ calls' = calls + 1
   /\ pc' = "caller"
   /\ trace' = Append(trace, Executed("whiten", reads, "", ""))
   /\ UNCHANGED <<algo, context, ready, current, local>>

\* camelliaEncryptBlock up to "Advance current location in key schedule"
EncryptEnter ==
   /\ \E input \in Buffers, output \in Buffers :
         Entered("camelliaEncryptBlock", input, output, 0, 4)
   /\ pc' = "encrypt.loop"

\* The round function of an iteration of the loop and ks += 2
EncryptRound ==
   /\ pc = "encrypt.loop"
   /\ local.i > 0
   /\ local' = [local EXCEPT
         !.x = CAMELLIA_ROUND(local.x[1], local.x[2], local.x[3], local.x[4],
                              context.ks[local.ks + 0 + 1], context.ks[local.ks + 1 + 1]),
         !.ks = local.ks + 2,
         !.i = IF camelliaSpecial(local.i) THEN local.i ELSE local.i - 1]
   /\ pc' = IF camelliaSpecial(local.i) THEN "encrypt.fl" ELSE "encrypt.loop"
   /\ trace' = Append(trace, Executed("round", <<local.ks, local.ks + 1>>, "", ""))
   /\ UNCHANGED apiVars

\* "6th, 12th and 18th rounds require special processing": FL, inverse FL
\* and ks += 4
EncryptFl ==
   /\ pc = "encrypt.fl"
   /\ local' = [local EXCEPT
         !.x = camelliaEncryptFl(context.ks, local.x, local.ks),
         !.ks = local.ks + 4,
         !.i = local.i - 1]
   /\ pc' = "encrypt.loop"
   /\ trace' = Append(trace,
         Executed("fl", <<local.ks, local.ks + 1, local.ks + 2, local.ks + 3>>,
                  "left", "right"))
   /\ UNCHANGED apiVars

\* After the loop: "XOR operation with kw3 and kw4" and the four stores
EncryptStore ==
   /\ pc = "encrypt.loop"
   /\ local.i = 0
   /\ Returned(camelliaEncryptStore(context.ks, Append(local.x, local.ks)),
               <<local.ks, local.ks + 1, local.ks + 2, local.ks + 3>>)

\* camelliaDecryptBlock up to "XOR ciphertext with kw3 and kw4"
DecryptEnter ==
   /\ \E input \in Buffers, output \in Buffers :
         Entered("camelliaDecryptBlock", input, output,
                 camelliaDecryptStart(context), camelliaDecryptStart(context))
   /\ pc' = "decrypt.loop"

\* ks -= 2 and the round function of an iteration of the loop
DecryptRound ==
   /\ pc = "decrypt.loop"
   /\ local.i > 0
   /\ local' = [local EXCEPT
         !.x = CAMELLIA_ROUND(local.x[1], local.x[2], local.x[3], local.x[4],
                              context.ks[local.ks - 2 + 0 + 1],
                              context.ks[local.ks - 2 + 1 + 1]),
         !.ks = local.ks - 2,
         !.i = IF camelliaSpecial(local.i) THEN local.i ELSE local.i - 1]
   /\ pc' = IF camelliaSpecial(local.i) THEN "decrypt.fl" ELSE "decrypt.loop"
   /\ trace' = Append(trace, Executed("round", <<local.ks - 2, local.ks - 1>>, "", ""))
   /\ UNCHANGED apiVars

\* The special processing of camelliaDecryptBlock: ks -= 4, FL on
\* (right1, right2) with ks[2], ks[3], inverse FL on (left1, left2) with
\* ks[0], ks[1]
DecryptFl ==
   /\ pc = "decrypt.fl"
   /\ local' = [local EXCEPT
         !.x = camelliaDecryptFl(context.ks, local.x, local.ks - 4),
         !.ks = local.ks - 4,
         !.i = local.i - 1]
   /\ pc' = "decrypt.loop"
   /\ trace' = Append(trace,
         Executed("fl", <<local.ks - 2, local.ks - 1, local.ks - 4, local.ks - 3>>,
                  "right", "left"))
   /\ UNCHANGED apiVars

\* After the loop: ks -= 4, "XOR operation with kw1 and kw2" and the stores
DecryptStore ==
   /\ pc = "decrypt.loop"
   /\ local.i = 0
   /\ Returned(camelliaDecryptStore(context.ks, Append(local.x, local.ks)),
               <<local.ks - 4, local.ks - 3, local.ks - 2, local.ks - 1>>)

NextRun ==
   \/ EncryptEnter
   \/ EncryptRound
   \/ EncryptFl
   \/ EncryptStore
   \/ DecryptEnter
   \/ DecryptRound
   \/ DecryptFl
   \/ DecryptStore

SpecRun == InitRun /\ [][NextRun]_vars

(***************************************************************************)
(* Properties of the functions, under SpecFn                               *)
(***************************************************************************)

\* The latest application
LastApplied == trace[Len(trace)]

\* The latest two applications are fn1 then fn2
AppliedInTurn(fn1, fn2) ==
   /\ Len(trace) >= 2
   /\ trace[Len(trace) - 1].fn = fn1
   /\ trace[Len(trace)].fn = fn2

\* The first of the latest two applications
FirstApplied == trace[Len(trace) - 1]

\* <<t1, t2>> of the round function: the left half <<l1, l2>> after the
\* key XOR, the S-layer and the P-layer
RoundT(l1, l2, k1, k2) ==
   LET s == CAMELLIA_S(XOR32(l1, k1), XOR32(l2, k2))
   IN CAMELLIA_P(s[1], s[2])

\* C11 as stated: one application of the Camellia round function to left
\* (L1,L2), right (R1,R2) and key pair (k1,k2) sets the new right half to
\* (L1,L2) and the new left half to (t2 XOR R2, t1 XOR R1), t1 and t2 being
\* the values after the key XOR, the S-layer and the P-layer.
RoundOutputStraight ==
   pc = "CAMELLIA_ROUND" =>
      LET in == LastApplied.in
          t == RoundT(in[1], in[2], local.key[1], local.key[2])
      IN LastApplied.out = <<XOR32(t[2], in[4]), XOR32(t[1], in[3]), in[1], in[2]>>

\* C11 amended: one application of the Camellia round function sets the new
\* right half to (L1,L2) and the new left half to (t2 XOR R1, t1 XOR R2).
RoundOutputCrossed ==
   pc = "CAMELLIA_ROUND" =>
      LET in == LastApplied.in
          t == RoundT(in[1], in[2], local.key[1], local.key[2])
      IN LastApplied.out = <<XOR32(t[2], in[3]), XOR32(t[1], in[4]), in[1], in[2]>>

\* The round function has been applied to a right half whose two words
\* differ, and a second time to its own output
RoundOutputCrossedWitness ==
   /\ AppliedInTurn("CAMELLIA_ROUND", "CAMELLIA_ROUND")
   /\ FirstApplied.in[3] # FirstApplied.in[4]
   /\ LastApplied.in = FirstApplied.out
   /\ LastApplied.out[3] = FirstApplied.out[1]
   /\ LastApplied.out[1] # FirstApplied.in[1]

\* C15: The AES tables sbox and isbox are permutations of the 256 byte
\* values and inverses of each other: for every byte x, isbox[sbox[x]] = x
\* and sbox[isbox[x]] = x, so invSubBytes undoes subBytes on every state.
SboxInverse ==
   /\ pc \in {"sbox", "isbox"} => LastApplied.out[1] \in Byte
   /\ AppliedInTurn("sbox", "isbox") => LastApplied.out = FirstApplied.in
   /\ AppliedInTurn("isbox", "sbox") => LastApplied.out = FirstApplied.in
   /\ AppliedInTurn("subBytes", "invSubBytes") => LastApplied.out = FirstApplied.in

\* invSubBytes has been applied to what subBytes left of a state
SboxInverseWitness ==
   /\ AppliedInTurn("subBytes", "invSubBytes")
   /\ LastApplied.in = FirstApplied.out
   /\ LastApplied.in # FirstApplied.in
   /\ LastApplied.out = FirstApplied.in

\* C16: mul2 is the multiplication by {02} in GF(2^8) modulo 0x11B: for
\* every byte x, mul2[x] = (2*x) mod 256 when x < 128 and
\* ((2*x) mod 256) XOR 0x1B when x >= 128; rcon[0] = 0, rcon[1] = 1 and
\* rcon[i] = mul2[rcon[i-1]] for 2 <= i <= 10.
Mul2AndRcon ==
   /\ pc = "mul2" =>
         LET x == LastApplied.in[1]
         IN LastApplied.out[1] = IF x < 128 THEN (2 * x) % 256
                                 ELSE XOR8((2 * x) % 256, \h1B)
   /\ pc = "rcon" =>
         LET i == LastApplied.in[1]
         IN LastApplied.out =
               <<0, 0, 0, IF i = 0 THEN 0
                          ELSE IF i = 1 THEN 1
                          ELSE mul2[rcon[(i - 1) + 1][4] + 1]>>

\* rcon[9] has been looked up: 0x1B, the first constant that needs the
\* reduction
Mul2AndRconWitness ==
   /\ pc = "rcon"
   /\ LastApplied.in = <<9>>
   /\ LastApplied.out = <<0, 0, 0, \h1B>>

\* C19: Camellia FL and FL^-1 are mutual inverses under the same key pair:
\* CAMELLIA_FL with (k1,k2) followed by CAMELLIA_INV_FL with (k1,k2)
\* returns the pair (x1,x2) it started from, and so does CAMELLIA_INV_FL
\* followed by CAMELLIA_FL.
FlInverse ==
   /\ AppliedInTurn("CAMELLIA_FL", "CAMELLIA_INV_FL") => LastApplied.out = FirstApplied.in
   /\ AppliedInTurn("CAMELLIA_INV_FL", "CAMELLIA_FL") => LastApplied.out = FirstApplied.in

\* CAMELLIA_FL has been applied to what CAMELLIA_INV_FL left, both words of
\* which it had changed
FlInverseWitness ==
   /\ AppliedInTurn("CAMELLIA_INV_FL", "CAMELLIA_FL")
   /\ FirstApplied.out[1] # FirstApplied.in[1]
   /\ FirstApplied.out[2] # FirstApplied.in[2]
   /\ LastApplied.out = FirstApplied.in

\* Column c of a state array
Column(state, c) == SubSeq(state, 4 * c + 1, 4 * c + 4)

\* C20: AES invMixColumns is the inverse of mixColumns: mixColumns followed
\* by invMixColumns returns every column (b0,b1,b2,b3), and so does
\* invMixColumns followed by mixColumns; each works on the four columns
\* independently: a column of the result depends on the same column of
\* the state only.
MixColumnsInverse ==
   /\ AppliedInTurn("mixColumns", "invMixColumns") => LastApplied.out = FirstApplied.in
   /\ AppliedInTurn("invMixColumns", "mixColumns") => LastApplied.out = FirstApplied.in
   /\ (pc = "mixColumns" /\ Len(trace) = 1) =>
         \A c \in 0..3 :
            c # local.key[1] =>
               Column(LastApplied.out, c) = Column(mixColumns(FipsPlaintext), c)
   /\ (pc = "invMixColumns" /\ Len(trace) = 1) =>
         \A c \in 0..3 :
            c # local.key[1] =>
               Column(LastApplied.out, c) = Column(invMixColumns(FipsPlaintext), c)

\* mixColumns has been applied to what invMixColumns left of a state whose
\* column 2 is (01, 80, FF, 00)
MixColumnsInverseWitness ==
   /\ AppliedInTurn("invMixColumns", "mixColumns")
   /\ local.key = <<2>>
   /\ Column(FirstApplied.in, 2) = <<\h01, \h80, \hFF, \h00>>
   /\ Column(FirstApplied.out, 2) # Column(FirstApplied.in, 2)
   /\ LastApplied.out = FirstApplied.in

(***************************************************************************)
(* Properties of the statements of the Camellia block operations, under    *)
(* SpecRun                                                                 *)
(***************************************************************************)

\* A block operation is running or has returned
Running == trace # <<>>

\* The block operation has returned
Finished == pc = "caller" /\ trace # <<>>

\* Number of round-function applications among the first j entries of trace
RoundsUpTo(j) == Cardinality({e \in 1..j : trace[e].group = "round"})

\* The rounds after which FL and FL^-1 are due
FlRounds(nr) == IF nr = 18 THEN {6, 12} ELSE {6, 12, 18}

\* C12: Camellia FL placement.  camelliaEncryptBlock executes exactly nr
\* round-function applications and applies FL to (L1,L2) and FL^-1 to
\* (R1,R2) exactly after rounds 6 and 12 when nr = 18 and after rounds 6,
\* 12 and 18 when nr = 24, never after the final round;
\* camelliaDecryptBlock applies them at the same round numbers counted
\* from its own start.
FlPlacement ==
   Running =>
      /\ RoundsUpTo(Len(trace)) <= context.nr
      /\ \A j \in 1..Len(trace) :
            /\ trace[j].group = "fl" =>
                  /\ trace[j - 1].group = "round"
                  /\ RoundsUpTo(j) \in FlRounds(context.nr)
                  /\ local.op = "camelliaEncryptBlock" =>
                        trace[j].fl = "left" /\ trace[j].invFl = "right"
            /\ (trace[j].group = "round" /\ RoundsUpTo(j) \in FlRounds(context.nr)) =>
                  IF j < Len(trace) THEN trace[j + 1].group = "fl"
                  ELSE pc \in {"encrypt.fl", "decrypt.fl"}
      /\ Finished =>
            /\ RoundsUpTo(Len(trace)) = context.nr
            /\ trace[Len(trace) - 1].group = "round"

\* camelliaDecryptBlock has returned after 24 rounds and three FL layers
FlPlacementWitness ==
   /\ Finished
   /\ local.op = "camelliaDecryptBlock"
   /\ context.nr = 24
   /\ RoundsUpTo(Len(trace)) = 24
   /\ Cardinality({j \in 1..Len(trace) : trace[j].group = "fl"}) = 3
   /\ trace[22].group = "fl"

\* Number of words in the groups of subkey words camelliaEncryptBlock
\* consumes: input whitening, six rounds, FL layer, ..., output whitening
GroupSizes(nr) ==
   <<4, 2, 2, 2, 2, 2, 2, 4, 2, 2, 2, 2, 2, 2, 4, 2, 2, 2, 2, 2, 2>>
      \o (IF nr = 24 THEN <<4, 2, 2, 2, 2, 2, 2>> ELSE <<>>) \o <<4>>

RECURSIVE SumSizes(_, _)
\* sizes[1] + ... + sizes[j]
SumSizes(sizes, j) == IF j = 0 THEN 0 ELSE sizes[j] + SumSizes(sizes, j - 1)

\* The indices of group j of the schedule, ascending
Group(nr, j) ==
   [q \in 1..GroupSizes(nr)[j] |-> SumSizes(GroupSizes(nr), j - 1) + q - 1]

RECURSIVE ReadsUpTo(_)
\* The indices read by the first j entries of trace, in order
ReadsUpTo(j) == IF j = 0 THEN <<>> ELSE ReadsUpTo(j - 1) \o trace[j].reads

\* The set of the elements of a sequence
Elements(seq) == {seq[q] : q \in 1..Len(seq)}

\* Number of subkey words and offset of the output whitening words
ScheduleWords(nr) == IF nr = 18 THEN 52 ELSE 68
LastGroupOffset(nr) == IF nr = 18 THEN 48 ELSE 64

Last == hist[Len(hist)]

InitOps == {"aesInit", "camelliaInit"}
EncryptOps == {"aesEncryptBlock", "camelliaEncryptBlock"}
DecryptOps == {"aesDecryptBlock", "camelliaDecryptBlock"}
BlockOps == EncryptOps \cup DecryptOps

\* The two latest calls are op1 then op2 and the second read the 16 bytes
\* the first wrote
Chained(op1, op2) ==
   /\ Len(hist) = 2
   /\ hist[1].op = op1
   /\ hist[2].op = op2
   /\ hist[2].inBytes = hist[1].outBytes

\* C1: AES round trip.  On an initialized context, aesDecryptBlock applied
\* to the output of aesEncryptBlock returns the block that was encrypted,
\* and aesEncryptBlock applied to the output of aesDecryptBlock returns the
\* block that was decrypted, for each key length.
AesRoundTrip ==
   /\ Chained("aesEncryptBlock", "aesDecryptBlock") => hist[2].outBytes = hist[1].inBytes
   /\ Chained("aesDecryptBlock", "aesEncryptBlock") => hist[2].outBytes = hist[1].inBytes

\* A 256-bit AES key is in use, a block was encrypted to a different block
\* and decrypted again
AesRoundTripWitness ==
   /\ Chained("aesEncryptBlock", "aesDecryptBlock")
   /\ current.keyLength = 32
   /\ hist[1].outBytes # hist[1].inBytes
   /\ hist[2].outBytes = hist[1].inBytes

\* C2: Camellia round trip.  On an initialized context, camelliaDecryptBlock
\* applied to the output of camelliaEncryptBlock returns the block that was
\* encrypted, and camelliaEncryptBlock applied to the output of
\* camelliaDecryptBlock returns the block that was decrypted.
CamelliaRoundTrip ==
   /\ Chained("camelliaEncryptBlock", "camelliaDecryptBlock")
         => hist[2].outBytes = hist[1].inBytes
   /\ Chained("camelliaDecryptBlock", "camelliaEncryptBlock")
         => hist[2].outBytes = hist[1].inBytes

\* A 192-bit Camellia key is in use, a block was decrypted to a different
\* block and encrypted again
CamelliaRoundTripWitness ==
   /\ Chained("camelliaDecryptBlock", "camelliaEncryptBlock")
   /\ current.keyLength = 24
   /\ hist[1].outBytes # hist[1].inBytes
   /\ hist[2].outBytes = hist[1].inBytes

\* FIPS-197 appendix C.1, C.2, C.3 ciphertexts of FipsPlaintext
FipsCiphertext(keyLength) ==
   CASE keyLength = 16 ->
           <<\h69, \hC4, \hE0, \hD8, \h6A, \h7B, \h04, \h30,
             \hD8, \hCD, \hB7, \h80, \h70, \hB4, \hC5, \h5A>>
     [] keyLength = 24 ->
           <<\hDD, \hA9, \h7C, \hA4, \h86, \h4C, \hDF, \hE0,
             \h6E, \hAF, \h70, \hA0, \hEC, \h0D, \h71, \h91>>
     [] keyLength = 32 ->
           <<\h8E, \hA2, \hB7, \hCA, \h51, \h67, \h45, \hBF,
             \hEA, \hFC, \h49, \h90, \h4B, \h49, \h60, \h89>>

\* C3: AES known answers.  With the first 16, 24 or 32 bytes of 00..1F as
\* the key, aesEncryptBlock maps 00112233445566778899AABBCCDDEEFF to the
\* FIPS-197 ciphertext of that key length and aesDecryptBlock maps that
\* ciphertext back to the plaintext.
AesKnownAnswers ==
   (hist # <<>> /\ current.key = FipsKey) =>
      /\ (Last.op = "aesEncryptBlock" /\ Last.inBytes = FipsPlaintext)
            => Last.outBytes = FipsCiphertext(current.keyLength)
      /\ (Last.op = "aesDecryptBlock"
            /\ Last.inBytes = FipsCiphertext(current.keyLength))
            => Last.outBytes = FipsPlaintext

\* The FIPS-197 C.2 ciphertext has been decrypted under the 192-bit key
AesKnownAnswersWitness ==
   /\ hist # <<>>
   /\ current = [key |-> FipsKey, keyLength |-> 24]
   /\ Last.op = "aesDecryptBlock"
   /\ Last.inBytes = FipsCiphertext(24)
   /\ Last.outBytes = FipsPlaintext

\* RFC 3713 ciphertexts of RfcPlaintext for the 128-, 192- and 256-bit key
RfcCiphertext(keyLength) ==
   CASE keyLength = 16 ->
           <<\h67, \h67, \h31, \h38, \h54, \h96, \h69, \h73,
             \h08, \h57, \h06, \h56, \h48, \hEA, \hBE, \h43>>
     [] keyLength = 24 ->
           <<\hB4, \h99, \h34, \h01, \hB3, \hE9, \h96, \hF8,
             \h4E, \hE5, \hCE, \hE7, \hD7, \h9B, \h09, \hB9>>
     [] keyLength = 32 ->
           <<\h9A, \hCC, \h23, \h7D, \hFF, \h16, \hD7, \h6C,
             \h20, \hEF, \h7C, \h91, \h9E, \h3A, \h75, \h09>>

\* C4: Camellia known answers.  With the RFC 3713 128-, 192- and 256-bit
\* keys, camelliaEncryptBlock maps 0123456789ABCDEFFEDCBA9876543210 to the
\* RFC 3713 ciphertext of that key length and camelliaDecryptBlock maps
\* that ciphertext back to the plaintext.
CamelliaKnownAnswers ==
   (hist # <<>> /\ current.key = RfcKey) =>
      /\ (Last.op = "camelliaEncryptBlock" /\ Last.inBytes = RfcPlaintext)
            => Last.outBytes = RfcCiphertext(current.keyLength)
      /\ (Last.op = "camelliaDecryptBlock"
            /\ Last.inBytes = RfcCiphertext(current.keyLength))
            => Last.outBytes = RfcPlaintext

\* The RFC 3713 256-bit ciphertext has been decrypted under the 256-bit key
CamelliaKnownAnswersWitness ==
   /\ hist # <<>>
   /\ current = [key |-> RfcKey, keyLength |-> 32]
   /\ Last.op = "camelliaDecryptBlock"
   /\ Last.inBytes = RfcCiphertext(32)
   /\ Last.outBytes = RfcPlaintext

ValidKeyLengths == {16, 24, 32}

\* C5: Invalid key length.  For aesInit and camelliaInit, a call with a key
\* length other than 16, 24 or 32 returns ERROR_INVALID_KEY_LENGTH and
\* leaves nr and every key schedule word of the context as they were before
\* the call; a call with length 16, 24 or 32 returns NO_ERROR.
InvalidKeyLengthRejected ==
   (hist # <<>> /\ Last.op \in InitOps) =>
      /\ Last.keyLength \notin ValidKeyLengths =>
            /\ Last.error = "ERROR_INVALID_KEY_LENGTH"
            /\ context = Last.before
      /\ Last.keyLength \in ValidKeyLengths => Last.error = "NO_ERROR"

\* camelliaInit has rejected a 20-byte key on a context that holds the
\* schedule of an accepted key
InvalidKeyLengthRejectedWitness ==
   /\ hist # <<>>
   /\ Last.op = "camelliaInit"
   /\ Last.keyLength = 20
   /\ Last.error = "ERROR_INVALID_KEY_LENGTH"
   /\ ready
   /\ context = Last.before

\* The memory of a call made alone: the 16 bytes inBytes at offset input,
\* zero elsewhere
AloneMem(input, inBytes) == MemWrite([i \in 1..32 |-> 0], input, inBytes)

\* The result, context and memory, of the block operation op
BlockCall(op, ctx, m, input, output) ==
   CASE op = "aesEncryptBlock" -> aesEncryptBlock(ctx, m, input, output)
     [] op = "aesDecryptBlock" -> aesDecryptBlock(ctx, m, input, output)
     [] op = "camelliaEncryptBlock" -> camelliaEncryptBlock(ctx, m, input, output)
     [] op = "camelliaDecryptBlock" -> camelliaDecryptBlock(ctx, m, input, output)

\* C6: Encrypt and decrypt are read-only over the context.  Every encrypt
\* or decrypt call on a READY context leaves nr and every key schedule word
\* unchanged, and a call that follows another encrypt or decrypt call
\* writes the 16 bytes it would have written had it run alone on the
\* context as it was before the preceding call.
ContextReadOnly ==
   (hist # <<>> /\ Last.op \in BlockOps) =>
      /\ context = Last.before
      /\ (Len(hist) = 2 /\ hist[1].op \in BlockOps) =>
            Last.outBytes =
               MemRead(BlockCall(Last.op, hist[1].before,
                                 AloneMem(Last.input, Last.inBytes),
                                 Last.input, Last.output).mem,
                       Last.output, 16)

\* A decryption has followed an encryption on one AES context, which is
\* as it was before both
ContextReadOnlyWitness ==
   /\ Len(hist) = 2
   /\ hist[1].op = "aesEncryptBlock"
   /\ hist[2].op = "aesDecryptBlock"
   /\ hist[2].outBytes # hist[2].inBytes
   /\ context = hist[1].before

\* C7: Buffer aliasing.  An encrypt or decrypt call whose output buffer is
\* its input buffer writes the same 16 bytes as a call with disjoint
\* buffers holding the same input.
AliasedBuffers ==
   (hist # <<>> /\ Last.op \in BlockOps /\ Last.input = Last.output) =>
      Last.outBytes =
         MemRead(BlockCall(Last.op, Last.before, AloneMem(0, Last.inBytes), 0, 16).mem,
                 16, 16)

\* camelliaEncryptBlock has encrypted a block in place
AliasedBuffersWitness ==
   /\ hist # <<>>
   /\ Last.op = "camelliaEncryptBlock"
   /\ Last.input = Last.output
   /\ Last.outBytes # Last.inBytes
   /\ MemRead(mem, Last.output, 16) = Last.outBytes

\* The latest call is a successful initialization with the key that was in
\* use before the call preceding it, so hist[1].before is the context
\* an earlier initialization with the same key has produced
SameKeyAgain ==
   /\ Len(hist) = 2
   /\ Last.op \in InitOps
   /\ Last.error = "NO_ERROR"
   /\ hist[1].keyed = [key |-> Last.key, keyLength |-> Last.keyLength]

\* C8 as stated: two successful initializations with the same key and key
\* length produce contexts whose nr and key schedule arrays are equal in
\* every word.
SameKeySameContext == SameKeyAgain => context = hist[1].before

\* The words of AES context c that a key of keyLength bytes uses
AesUsed(c, keyLength) ==
   [nr |-> c.nr, w |-> SubSeq(c.w, 1, 4 * (aesRounds(keyLength) + 1))]

\* The words of Camellia context c that a key of keyLength bytes uses
CamelliaUsed(c, keyLength) ==
   [nr |-> c.nr, k |-> c.k,
    ks |-> SubSeq(c.ks, 1, IF keyLength = 16 THEN 52 ELSE CAMELLIA_KS_SIZE)]

\* C8 amended: two successful initializations with the same key and key
\* length produce contexts equal in nr and in every key schedule word the
\* key length uses: w[0 .. 4*(nr+1)-1] for AES; all of k and ks[0..51]
\* (16-byte key) or ks[0..67] (24- or 32-byte key) for Camellia.
SameKeySameUsedWords ==
   SameKeyAgain =>
      IF algo = "AES"
         THEN AesUsed(context, Last.keyLength) = AesUsed(hist[1].before, Last.keyLength)
      ELSE CamelliaUsed(context, Last.keyLength)
              = CamelliaUsed(hist[1].before, Last.keyLength)

\* A Camellia context keyed with 16 bytes, then with 32 bytes, has been
\* keyed with the same 16 bytes again
SameKeySameUsedWordsWitness ==
   /\ SameKeyAgain
   /\ algo = "CAMELLIA"
   /\ Last.keyLength = 16
   /\ hist[1].op = "camelliaInit"
   /\ hist[1].keyLength = 32
   /\ hist[1].error = "NO_ERROR"

\* C9: AES key schedule.  After a successful aesInit with a key of 16, 24 or
\* 32 bytes, nr is 10, 12 or 14, the first Nk = keyLength/4 words of w hold
\* the key bytes in their original layout, and for Nk <= i < 4*(nr+1),
\* w[i] = w[i-Nk] XOR t, with t = SubWord(RotWord(w[i-1])) XOR rcon[i/Nk]
\* if i mod Nk = 0, t = SubWord(w[i-1]) if Nk > 6 and i mod Nk = 4, and
\* t = w[i-1] otherwise.
AesKeySchedule ==
   (hist # <<>> /\ Last.op = "aesInit" /\ Last.error = "NO_ERROR") =>
      LET Nk == Last.keyLength \div 4
          w(i) == context.w[i + 1]
      IN /\ context.nr = CASE Last.keyLength = 16 -> 10
                           [] Last.keyLength = 24 -> 12
                           [] Last.keyLength = 32 -> 14
         /\ \A i \in 0..(Nk - 1) :
               BYTES32H(w(i)) = SubSeq(Last.key, 4 * i + 1, 4 * i + 4)
         /\ \A i \in Nk..(4 * (context.nr + 1) - 1) :
               w(i) = XOR32(w(i - Nk),
                            IF i % Nk = 0
                               THEN XOR32(subWord(rotWord(w(i - 1))), rcon[(i \div Nk) + 1])
                            ELSE IF Nk > 6 /\ i % Nk = 4 THEN subWord(w(i - 1))
                            ELSE w(i - 1))

\* aesInit has expanded a 24-byte key: 12 rounds, 52 words
AesKeyScheduleWitness ==
   /\ hist # <<>>
   /\ Last.op = "aesInit"
   /\ Last.error = "NO_ERROR"
   /\ Last.keyLength = 24
   /\ context.nr = 12
   /\ context.w[52] # context.w[51]

\* C10: Camellia key intake.  After a successful camelliaInit, nr is 18 for
\* a 16-byte key and 24 for a 24- or 32-byte key; KL and KR hold the key
\* bytes loaded as big-endian 32-bit words, KR being all zero for a 16-byte
\* key; for a 24-byte key KR[2] and KR[3] are the bitwise complements of
\* KR[0] and KR[1].
CamelliaKeyIntake ==
   (hist # <<>> /\ Last.op = "camelliaInit" /\ Last.error = "NO_ERROR") =>
      /\ context.nr = IF Last.keyLength = 16 THEN 18 ELSE 24
      /\ \A j \in 0..3 : context.k[KL + j + 1] = LOAD32BE(Last.key, 4 * j)
      /\ \A j \in 0..3 :
            (4 * (4 + j) + 4 <= Last.keyLength) =>
               context.k[KR + j + 1] = LOAD32BE(Last.key, 16 + 4 * j)
      /\ Last.keyLength = 16 =>
            \A j \in 0..3 : context.k[KR + j + 1] = <<0, 0, 0, 0>>
      /\ Last.keyLength = 24 =>
            /\ context.k[KR + 2 + 1] = NOT32(context.k[KR + 0 + 1])
            /\ context.k[KR + 3 + 1] = NOT32(context.k[KR + 1 + 1])

\* camelliaInit has taken a 24-byte key on a context that held a key before
CamelliaKeyIntakeWitness ==
   /\ hist # <<>>
   /\ Last.op = "camelliaInit"
   /\ Last.error = "NO_ERROR"
   /\ Last.keyLength = 24
   /\ Last.keyed # NoKey
   /\ context.k[KR + 2 + 1] = <<\hFF, \hEE, \hDD, \hCC>>

\* The latest call is a successful camelliaInit
CamelliaKeyed ==
   /\ hist # <<>>
   /\ Last.op = "camelliaInit"
   /\ Last.error = "NO_ERROR"

\* The 32 bits of word x, most significant first
WordBits(x) == [b \in 1..32 |-> (x[((b - 1) \div 8) + 1] \div Pow2[8 - ((b - 1) % 8)]) % 2]

\* The byte whose 8 bits, most significant first, are bits[from + 1 .. from + 8]
BitsByte(bits, from) ==
   128 * bits[from + 1] + 64 * bits[from + 2] + 32 * bits[from + 3]
      + 16 * bits[from + 4] + 8 * bits[from + 5] + 4 * bits[from + 6]
      + 2 * bits[from + 7] + bits[from + 8]

\* The word whose 32 bits are bits[from + 1 .. from + 32]
BitsWord(bits, from) ==
   <<BitsByte(bits, from), BitsByte(bits, from + 8),
     BitsByte(bits, from + 16), BitsByte(bits, from + 24)>>

\* The 128-bit value of the bank of k at offset bank, as 128 bits, the first
\* word of the bank being the most significant
BankBits(k, bank) ==
   WordBits(k[bank + 1]) \o WordBits(k[bank + 2])
      \o WordBits(k[bank + 3]) \o WordBits(k[bank + 4])

\* A 128-bit value rotated left by shift bits
RotateLeft128(bits, shift) == [b \in 1..128 |-> bits[((b - 1 + shift) % 128) + 1]]

\* The table entries that write ks[index]
Writers(table, index) ==
   {e \in 1..Len(table) : table[e][1] = index \/ table[e][1] + 1 = index}

\* C14: Camellia subkey materialization.  After a successful camelliaInit,
\* for every entry (index, bank, shift, half) of the table the key length
\* selects (ks1 for 16 bytes, ks2 for 24 and 32 bytes), ks[index] and
\* ks[index + 1] are the left (half = 0) or right (half = 64) 64 bits of
\* the 128-bit value of the bank rotated left by shift bits; the entries
\* write every index of 0..51 (ks1) or 0..67 (ks2) exactly once.
CamelliaSubkeysMaterialized ==
   CamelliaKeyed =>
      LET table == IF Last.keyLength = 16 THEN ks1 ELSE ks2
          words == IF Last.keyLength = 16 THEN 52 ELSE 68
      IN /\ \A e \in 1..Len(table) :
               LET rot == RotateLeft128(BankBits(context.k, table[e][2]), table[e][3])
               IN /\ context.ks[table[e][1] + 1] = BitsWord(rot, table[e][4])
                  /\ context.ks[table[e][1] + 2] = BitsWord(rot, table[e][4] + 32)
         /\ \A index \in 0..(words - 1) : Cardinality(Writers(table, index)) = 1
         /\ \A e \in 1..Len(table) : table[e][1] + 1 < words

\* camelliaInit has taken a 32-byte key: ks[66..67], the last entry of ks2,
\* is the right half of KB rotated left by 111 bits
CamelliaSubkeysMaterializedWitness ==
   /\ CamelliaKeyed
   /\ Last.keyLength = 32
   /\ ks2[Len(ks2)] = <<66, KB, 111, R>>
   /\ context.ks[67] = BitsWord(RotateLeft128(BankBits(context.k, KB), 111), 64)
   /\ context.ks[67] # context.k[KB + 1]

\* The context a single initialization of a zero-filled context with the
\* key in use produces
FreshKeyed ==
   IF algo = "AES"
      THEN aesInit(AesFresh(0), current.key, current.keyLength).context
   ELSE camelliaInit(CamelliaFresh(0), current.key, current.keyLength).context

\* C17: Re-keying a context.  After any sequence of init calls on one
\* context with at least one successful call (key lengths 16, 24, 32 and
\* rejected lengths mixed, the context starting with arbitrary contents),
\* every encrypt and decrypt result equals the result obtained from a fresh
\* context initialized once with the key of the latest successful call.
RekeyedLikeFresh ==
   (hist # <<>> /\ Last.op \in BlockOps) =>
      Last.outBytes =
         MemRead(BlockCall(Last.op, FreshKeyed, AloneMem(Last.input, Last.inBytes),
                           Last.input, Last.output).mem,
                 Last.output, 16)

\* A Camellia context keyed with 32 bytes and then with 16 bytes has
\* decrypted a block, its schedule still holding words of the 32-byte key
RekeyedLikeFreshWitness ==
   /\ Len(hist) = 2
   /\ hist[1].op = "camelliaInit"
   /\ hist[1].keyLength = 16
   /\ hist[1].keyed.keyLength = 32
   /\ hist[2].op = "camelliaDecryptBlock"
   /\ context # FreshKeyed
   /\ hist[2].outBytes # hist[2].inBytes

\* The latest call is a successful initialization
Keyed ==
   /\ hist # <<>>
   /\ Last.op \in InitOps
   /\ Last.error = "NO_ERROR"

\* C18: Frame of a successful init.  aesInit writes only nr and the words
\* w[0 .. 4*(nr+1)-1] and leaves every later word of w unchanged (words
\* 44..59 for a 16-byte key, 52..59 for a 24-byte key); camelliaInit with a
\* 16-byte key writes nr, all 16 words of k and ks[0..51] and leaves
\* ks[52..67] unchanged.
InitFrame ==
   Keyed =>
      /\ algo = "AES" =>
            /\ 4 * (context.nr + 1) = CASE Last.keyLength = 16 -> 44
                                        [] Last.keyLength = 24 -> 52
                                        [] Last.keyLength = 32 -> 60
            /\ \A i \in (4 * (context.nr + 1))..(AES_W_SIZE - 1) :
                  context.w[i + 1] = Last.before.w[i + 1]
            /\ AesUsed(context, Last.keyLength) = AesUsed(FreshKeyed, Last.keyLength)
      /\ (algo = "CAMELLIA" /\ Last.keyLength = 16) =>
            /\ \A i \in 52..(CAMELLIA_KS_SIZE - 1) :
                  context.ks[i + 1] = Last.before.ks[i + 1]
            /\ CamelliaUsed(context, 16) = CamelliaUsed(FreshKeyed, 16)

\* A Camellia context that held the schedule of a 32-byte key has been
\* keyed with 16 bytes: ks[52..67] are still those of the 32-byte key
InitFrameWitness ==
   /\ Keyed
   /\ algo = "CAMELLIA"
   /\ Last.keyLength = 16
   /\ Last.keyed.keyLength = 32
   /\ context.ks[53] = Last.before.ks[53]
   /\ context.ks[53] # FreshKeyed.ks[53]
   /\ context.ks[5] # Last.before.ks[5]

\* A block operation run statement by statement stores what the operation
\* as a whole stores
RunMatchesBlock ==
   (pc = "caller" /\ hist # <<>>) =>
      /\ Last.outBytes = MemRead(mem, Last.output, 16)
      /\ Last.outBytes =
            MemRead(BlockCall(Last.op, context, AloneMem(Last.input, Last.inBytes),
                              Last.input, Last.output).mem,
                    Last.output, 16)

====
